---------------------------- MODULE Spec2Model ----------------------------
(***************************************************************************)
(* A model of src/parser.mjs: the WebVTT cue assembler                     *)
(* (WebVttParser.parse), the timing and settings parser                    *)
(* (WebVttCueTimingsAndSettingsParser) and the cue-text tokenizer and     *)
(* tree builder (WebVttCueTextParser).                                     *)
(*                                                                         *)
(* A JavaScript string is a sequence of one-character strings, so that a   *)
(* scanner is modelled character by character.  A time is a whole number   *)
(* of milliseconds (the code holds seconds in a double: 1.5 is 1500        *)
(* here).                                                                  *)
(***************************************************************************)
EXTENDS Integers, Sequences, FiniteSets, TLC

(***************************************************************************)
(* Characters and strings                                                  *)
(***************************************************************************)

\* what line[pos] gives past the end of the line
NoChar == "undefined"

Digit == {"0", "1", "2", "3", "4", "5", "6", "7", "8", "9"}

\* SPACE = /[ \t\f]/
SPACE == {" ", "\t", "\f"}

DigitVal(c) ==
  CASE c = "0" -> 0 [] c = "1" -> 1 [] c = "2" -> 2 [] c = "3" -> 3
    [] c = "4" -> 4 [] c = "5" -> 5 [] c = "6" -> 6 [] c = "7" -> 7
    [] c = "8" -> 8 [] c = "9" -> 9

CharAt(line, pos) == IF pos >= 1 /\ pos <= Len(line) THEN line[pos] ELSE NoChar

\* s.slice(from - 1): the characters of s from index from on
Drop(s, from) == IF from > Len(s) THEN <<>> ELSE SubSeq(s, from, Len(s))

\* s.slice(0, n)
Take(s, n) == IF n <= 0 THEN <<>> ELSE SubSeq(s, 1, IF n > Len(s) THEN Len(s) ELSE n)

\* the end of the longest run of characters of set starting at pos
RECURSIVE RunEnd(_, _, _)
RunEnd(line, pos, set) ==
  IF pos <= Len(line) /\ line[pos] \in set THEN RunEnd(line, pos + 1, set) ELSE pos

\* NOSPACE.test(c); test(undefined) tests the text "undefined", which matches
NOSPACE_test(c) == c = NoChar \/ c \notin SPACE

\* parseInt(digits, 10) of a run of digits (NaN, here -1, when it is empty)
RECURSIVE DigitsVal(_)
DigitsVal(ds) ==
  IF ds = <<>> THEN 0 ELSE 10 * DigitsVal(SubSeq(ds, 1, Len(ds) - 1)) + DigitVal(ds[Len(ds)])

\* s.indexOf(sub, from) as a 1-based index, 0 when absent (-1 in the code)
RECURSIVE IndexOfFrom(_, _, _)
IndexOfFrom(s, sub, from) ==
  IF from + Len(sub) - 1 > Len(s) THEN 0
  ELSE IF SubSeq(s, from, from + Len(sub) - 1) = sub THEN from
  ELSE IndexOfFrom(s, sub, from + 1)

IndexOf(s, sub) == IndexOfFrom(s, sub, 1)

(***************************************************************************)
(* WebVttCueTimingsAndSettingsParser: the timestamp scanner                *)
(***************************************************************************)

\* #skip(pattern): the position after the run
Skip(line, pos, set) == RunEnd(line, pos, set)

\* #collect(pattern): the run itself
Collect(line, pos, set) == SubSeq(line, pos, RunEnd(line, pos, set) - 1)

\* a failed scan: the diagnostic, and where the cursor was left
TsFail(msg, pos) == [ok |-> FALSE, val |-> -1, pos |-> pos, errs |-> <<msg>>]

\* val1.length > 2 || parseInt(val1, 10) > 59
TsUnitsHours(val1) == Len(val1) > 2 \/ DigitsVal(val1) > 59

\* a variant that lets one digit pass, to try the properties against
MinutesMalformedMut(val1) == Len(val1) > 2

\* val1.length !== 2, where the timestamp has no hours
MinutesMalformed(val1) == Len(val1) # 2

\* #timestamp(): the time in milliseconds, or undefined (ok = FALSE)
Timestamp(line, pos0) ==
  IF CharAt(line, pos0) = NoChar THEN TsFail("No timestamp found.", pos0)
  ELSE IF CharAt(line, pos0) \notin Digit
    THEN TsFail("Timestamp must start with a character in the range 0-9.", pos0)
  ELSE
    LET val1 == Collect(line, pos0, Digit)
        pos1 == pos0 + Len(val1)
        hours == TsUnitsHours(val1)
    IN
    IF CharAt(line, pos1) # ":" THEN TsFail("No time unit separator found.", pos1)
    ELSE
      LET val2 == Collect(line, pos1 + 1, Digit)
          pos2 == pos1 + 1 + Len(val2)
      IN
      IF Len(val2) # 2 THEN TsFail("Must be exactly two digits.", pos2)
      ELSE
        LET three == hours \/ CharAt(line, pos2) = ":"
            val3 == IF three THEN Collect(line, pos2 + 1, Digit) ELSE val2
            pos3 == IF three THEN pos2 + 1 + Len(val3) ELSE pos2
            h == IF three THEN DigitsVal(val1) ELSE 0
            m == IF three THEN DigitsVal(val2) ELSE DigitsVal(val1)
            s == DigitsVal(val3)
            val4 == Collect(line, pos3 + 1, Digit)
            pos4 == pos3 + 1 + Len(val4)
        IN
        IF three /\ CharAt(line, pos2) # ":"
          THEN TsFail("No seconds found or minutes is greater than 59.", pos2)
        ELSE IF three /\ Len(val3) # 2 THEN TsFail("Must be exactly two digits.", pos3)
        ELSE IF ~three /\ MinutesMalformed(val1) THEN TsFail("Must be exactly two digits.", pos2)
        ELSE IF CharAt(line, pos3) # "."
          THEN TsFail("No decimal separator (\".\") found.", pos3)
        ELSE IF Len(val4) # 3
          THEN TsFail("Milliseconds must be given in three digits.", pos4)
        ELSE IF m > 59 THEN TsFail("You cannot have more than 59 minutes.", pos4)
        ELSE IF s > 59 THEN TsFail("You cannot have more than 59 seconds.", pos4)
        ELSE [ok |-> TRUE,
              val |-> h * 3600000 + m * 60000 + s * 1000 + DigitsVal(val4),
              pos |-> pos4,
              errs |-> <<>>]


(***************************************************************************)
(* JavaScript numbers, as far as the settings parser uses them.  A finite  *)
(* number is (-1)^neg * mant / 10^scale, with mant not a multiple of 10    *)
(* unless scale = 0; kind "auto" is the string 'auto' a position holds by  *)
(* default.                                                                *)
(***************************************************************************)

RECURSIVE Pow10(_)
Pow10(n) == IF n <= 0 THEN 1 ELSE 10 * Pow10(n - 1)

RECURSIVE Normal(_, _, _)
Normal(neg, mant, scale) ==
  IF scale > 0 /\ mant % 10 = 0 THEN Normal(neg, mant \div 10, scale - 1)
  ELSE [kind |-> "num", neg |-> neg, mant |-> mant, scale |-> scale]

NaN == [kind |-> "nan", neg |-> FALSE, mant |-> 0, scale |-> 0]
Infinity(neg) == [kind |-> "inf", neg |-> neg, mant |-> 0, scale |-> 0]
Auto == [kind |-> "auto", neg |-> FALSE, mant |-> 0, scale |-> 0]
IntNum(n) == [kind |-> "num", neg |-> n < 0, mant |-> IF n < 0 THEN -n ELSE n, scale |-> 0]

Signed(x) == IF x.neg THEN -x.mant ELSE x.mant

\* x > k and x < k for an integer k, as JavaScript compares (NaN compares false)
NumGT(x, k) ==
  CASE x.kind = "num" -> Signed(x) > k * Pow10(x.scale)
    [] x.kind = "inf" -> ~x.neg
    [] OTHER -> FALSE

NumLT(x, k) ==
  CASE x.kind = "num" -> Signed(x) < k * Pow10(x.scale)
    [] x.kind = "inf" -> x.neg
    [] OTHER -> FALSE

\* white space that parseInt, parseFloat and Number trim
StrWhiteSpace == {" ", "\t", "\f", "\n", "\r"}

HexDigit == Digit \cup {"a", "b", "c", "d", "e", "f", "A", "B", "C", "D", "E", "F"}

\* parseInt(s, 10): white space, a sign, then the longest run of digits
ParseInt(s) ==
  LET Digits(neg, ds) ==
        IF ds = <<>> THEN NaN
        ELSE [kind |-> "num", neg |-> neg, mant |-> DigitsVal(ds), scale |-> 0]
      Sign(p0) ==
        Digits(CharAt(s, p0) = "-",
               Collect(s, IF CharAt(s, p0) \in {"-", "+"} THEN p0 + 1 ELSE p0, Digit))
  IN Sign(RunEnd(s, 1, StrWhiteSpace))

\* The longest prefix of s from pos that is a StrDecimalLiteral: sign,
\* then Infinity or digits with an optional fraction and exponent.
\* [ok, end, val]: whether there is one, the position after it, its value.
DecimalPrefix(s, pos) ==
  LET neg == CharAt(s, pos) = "-"
      \* the literal with its digits int and frac, the exponent digits exp
      \* (none: no exponent part) and its end
      Literal(int, frac, exp, eneg, end) ==
        LET e == (IF eneg THEN -DigitsVal(exp) ELSE DigitsVal(exp)) - Len(frac)
            m == DigitsVal(int \o frac)
        IN IF int = <<>> /\ frac = <<>> THEN [ok |-> FALSE, end |-> pos, val |-> NaN]
           ELSE [ok |-> TRUE, end |-> end,
                 val |-> IF m # 0 /\ e + Len(int \o frac) > 308 THEN Infinity(neg)
                         ELSE IF e >= 0 THEN Normal(neg, m * Pow10(e), 0)
                         ELSE Normal(neg, m, -e)]
      \* from the exponent sign at p4, after an e at p3
      Exponent(int, frac, p3, p4, exp) ==
        IF exp = <<>> THEN Literal(int, frac, <<>>, FALSE, p3)
        ELSE Literal(int, frac, exp, CharAt(s, p3 + 1) = "-", p4 + Len(exp))
      \* from the end p3 of the fraction
      AfterFraction(int, frac, p3) ==
        IF CharAt(s, p3) \in {"e", "E"}
          THEN Exponent(int, frac, p3,
                        IF CharAt(s, p3 + 1) \in {"-", "+"} THEN p3 + 2 ELSE p3 + 1,
                        Collect(s, IF CharAt(s, p3 + 1) \in {"-", "+"} THEN p3 + 2 ELSE p3 + 1,
                                Digit))
        ELSE Literal(int, frac, <<>>, FALSE, p3)
      Fraction(int, p2, frac) == AfterFraction(int, frac, p2 + 1 + Len(frac))
      \* from the end p2 of the integer digits
      AfterInt(int, p2) ==
        IF CharAt(s, p2) = "." THEN Fraction(int, p2, Collect(s, p2 + 1, Digit))
        ELSE AfterFraction(int, <<>>, p2)
      Integer(p1, int) ==
        IF p1 + 7 <= Len(s) /\ SubSeq(s, p1, p1 + 7) = <<"I", "n", "f", "i", "n", "i", "t", "y">>
          THEN [ok |-> TRUE, end |-> p1 + 8, val |-> Infinity(neg)]
        ELSE AfterInt(int, p1 + Len(int))
      Sign(p1) == Integer(p1, Collect(s, p1, Digit))
  IN Sign(IF CharAt(s, pos) \in {"-", "+"} THEN pos + 1 ELSE pos)

\* parseFloat(s)
ParseFloat(s) ==
  LET Value(d) == IF d.ok THEN d.val ELSE NaN
  IN Value(DecimalPrefix(s, RunEnd(s, 1, StrWhiteSpace)))

\* the end of s with its trailing white space trimmed
RECURSIVE TrimEnd(_)
TrimEnd(s) ==
  IF s # <<>> /\ s[Len(s)] \in StrWhiteSpace THEN TrimEnd(SubSeq(s, 1, Len(s) - 1)) ELSE s

\* Number(s), the string-to-number conversion behind isNaN(s) and isFinite(s):
\* the trimmed text is empty (0), a decimal literal, or 0x, 0o, 0b digits
ToNumber(s) ==
  LET RadixDigits(radix) ==
        CASE radix \in {"x", "X"} -> HexDigit
          [] radix \in {"o", "O"} -> {"0", "1", "2", "3", "4", "5", "6", "7"}
          [] radix \in {"b", "B"} -> {"0", "1"}
          [] OTHER -> {}
      Value(t, d) ==
        IF t = <<>> THEN IntNum(0)
        ELSE IF d.ok /\ d.end = Len(t) + 1 THEN d.val
        ELSE IF CharAt(t, 1) = "0" /\ Len(t) >= 3
                /\ RunEnd(t, 3, RadixDigits(CharAt(t, 2))) = Len(t) + 1
          THEN IntNum(1)   \* some finite number: only isNaN and isFinite read it
        ELSE NaN
      Trimmed(t) == Value(t, DecimalPrefix(t, 1))
  IN Trimmed(TrimEnd(Drop(s, RunEnd(s, 1, StrWhiteSpace))))

isNaN(s) == ToNumber(s).kind = "nan"
isFinite(s) == ToNumber(s).kind = "num"

\* the decimal digits of a natural number
RECURSIVE NatToStr(_)
NatToStr(n) ==
  IF n < 10 THEN <<SubSeq(<<"0", "1", "2", "3", "4", "5", "6", "7", "8", "9">>, n + 1, n + 1)[1]>>
  ELSE NatToStr(n \div 10) \o NatToStr(n % 10)

RECURSIVE PadZeros(_, _)
PadZeros(s, n) == IF Len(s) >= n THEN s ELSE PadZeros(<<"0">> \o s, n)

\* Number.prototype.toString of a number below 10^21 with few digits: the
\* digits with a decimal point, or d.ddde-n for a number below 10^-6
NumToStr(x) ==
  CASE x.kind = "auto" -> <<"a", "u", "t", "o">>
    [] x.kind = "nan" -> <<"N", "a", "N">>
    [] x.kind = "inf" -> (IF x.neg THEN <<"-">> ELSE <<>>) \o <<"I", "n", "f", "i", "n", "i", "t", "y">>
    [] OTHER ->
         LET p == Pow10(x.scale)
             sign == IF x.neg /\ x.mant # 0 THEN <<"-">> ELSE <<>>
             digits == NatToStr(x.mant)
             n == Len(digits) - x.scale     \* the value is 0.digits * 10^n
         IN IF x.mant # 0 /\ n <= -6
              THEN sign \o <<digits[1]>>
                     \o (IF Len(digits) > 1 THEN <<".">> \o Tail(digits) ELSE <<>>)
                     \o <<"e", "-">> \o NatToStr(1 - n)
            ELSE sign \o NatToStr(x.mant \div p)
                   \o (IF x.scale = 0 THEN <<>>
                       ELSE <<".">> \o PadZeros(NatToStr(x.mant % p), x.scale))


(***************************************************************************)
(* WebVttCueTimingsAndSettingsParser: settings                             *)
(***************************************************************************)

\* an unassigned variable (comp[1] is always a string, never this)
Undefined == <<NoChar>>

\* defaultCueSettings and the fields parse() adds; ord and src are history:
\* the cue's place in the order of acceptance and the index of its timing line
DefaultCue ==
  [id |-> <<>>, startTime |-> 0, endTime |-> 0, text |-> <<>>,
   direction |-> <<"h", "o", "r", "i", "z", "o", "n", "t", "a", "l">>, snapToLines |-> TRUE, linePosition |-> Auto,
   lineAlign |-> <<"s", "t", "a", "r", "t">>, textPosition |-> Auto, positionAlign |-> <<"a", "u", "t", "o">>,
   size |-> IntNum(100), alignment |-> <<"c", "e", "n", "t", "e", "r">>, pauseOnExit |-> FALSE,
   tree |-> [children |-> <<>>], nonSerializable |-> FALSE, ord |-> 0, src |-> 0]

\* s.split(sep) for a separator of one character out of seps
RECURSIVE Split(_, _)
Split(s, seps) ==
  LET e == RunEnd(s, 1, {c \in {s[i] : i \in 1..Len(s)} : c \notin seps})
  IN IF e > Len(s) THEN <<s>>
     ELSE <<SubSeq(s, 1, e - 1)>> \o Split(Drop(s, e + 1), seps)

\* /^[-\d](\d*)(\.\d+)?%?$/.test(value)
LineRegexTest(value) ==
  LET p1 == RunEnd(value, 2, Digit)
      fracEnd == RunEnd(value, p1 + 1, Digit)
      p2 == IF CharAt(value, p1) = "." /\ fracEnd > p1 + 1 THEN fracEnd ELSE p1
      p3 == IF CharAt(value, p2) = "%" THEN p2 + 1 ELSE p2
  IN CharAt(value, 1) \in Digit \cup {"-"} /\ p3 = Len(value) + 1

\* what one settings token leaves: the cue, the function-scoped variable
\* positionAlign, and its diagnostic if it failed
Kept(cue, pa) == [cue |-> cue, positionAlign |-> pa, errs |-> <<>>, failed |-> FALSE]
Failed(cue, pa, msg) == [cue |-> cue, positionAlign |-> pa, errs |-> <<msg>>, failed |-> TRUE]

\* setting === 'vertical'
SetVertical(cue, pa, value) ==
  IF value # <<"r", "l">> /\ value # <<"l", "r">>
    THEN Failed(cue, pa, "Writing direction can only be set to 'rl' or 'rl'.")
  ELSE Kept([cue EXCEPT !.direction = value], pa)

\* a variant in which a line setting without an alignment sets lineAlign
\* back to 'start', to try the properties against
SetLineMut(cue, pa, value0) ==
  LET comp == Split(value0, {","})
      hasComma == Len(comp) > 1
      value == IF hasComma THEN comp[1] ELSE value0
      lineAlign == IF hasComma THEN comp[2] ELSE Undefined
      pct == IndexOf(value, <<"%">>)
      isPercent == CharAt(value, Len(value)) = "%"
      numVal == IF isPercent THEN Take(value, Len(value) - 1) ELSE value
  IN
  IF ~LineRegexTest(value) THEN Failed(cue, pa, "Line position takes a number or percentage.")
  ELSE IF IndexOfFrom(value, <<"-">>, 2) # 0
    THEN Failed(cue, pa, "Line position can only have '-' at the start.")
  ELSE IF pct # 0 /\ pct # Len(value)
    THEN Failed(cue, pa, "Line position can only have '%' at the end.")
  ELSE IF value[1] = "-" /\ isPercent
    THEN Failed(cue, pa, "Line position cannot be a negative percentage.")
  ELSE IF isPercent /\ NumGT(ParseInt(value), 100)
    THEN Failed(cue, pa, "Line position cannot be >100%.")
  ELSE IF numVal = <<>> \/ isNaN(numVal) \/ ~isFinite(numVal)
    THEN Failed(cue, pa, "Line position needs to be a number")
  ELSE IF lineAlign # Undefined /\ lineAlign \notin {<<"s", "t", "a", "r", "t">>, <<"c", "e", "n", "t", "e", "r">>, <<"e", "n", "d">>}
    THEN Failed(cue, pa, "Line alignment needs to be one of start, center or end")
  ELSE Kept([cue EXCEPT !.lineAlign = IF lineAlign # Undefined THEN lineAlign ELSE <<"s", "t", "a", "r", "t">>,
                        !.snapToLines = ~isPercent,
                        !.linePosition = ParseFloat(numVal),
                        !.nonSerializable =
                            IF NumToStr(ParseFloat(numVal)) # numVal THEN TRUE ELSE @],
            pa)

\* setting === 'line'
SetLine(cue, pa, value0) ==
  LET comp == Split(value0, {","})
      hasComma == Len(comp) > 1
      value == IF hasComma THEN comp[1] ELSE value0
      lineAlign == IF hasComma THEN comp[2] ELSE Undefined
      pct == IndexOf(value, <<"%">>)
      isPercent == CharAt(value, Len(value)) = "%"
      numVal == IF isPercent THEN Take(value, Len(value) - 1) ELSE value
  IN
  IF ~LineRegexTest(value) THEN Failed(cue, pa, "Line position takes a number or percentage.")
  ELSE IF IndexOfFrom(value, <<"-">>, 2) # 0
    THEN Failed(cue, pa, "Line position can only have '-' at the start.")
  ELSE IF pct # 0 /\ pct # Len(value)
    THEN Failed(cue, pa, "Line position can only have '%' at the end.")
  ELSE IF value[1] = "-" /\ isPercent
    THEN Failed(cue, pa, "Line position cannot be a negative percentage.")
  ELSE IF isPercent /\ NumGT(ParseInt(value), 100)
    THEN Failed(cue, pa, "Line position cannot be >100%.")
  ELSE IF numVal = <<>> \/ isNaN(numVal) \/ ~isFinite(numVal)
    THEN Failed(cue, pa, "Line position needs to be a number")
  ELSE IF lineAlign # Undefined /\ lineAlign \notin {<<"s", "t", "a", "r", "t">>, <<"c", "e", "n", "t", "e", "r">>, <<"e", "n", "d">>}
    THEN Failed(cue, pa, "Line alignment needs to be one of start, center or end")
  ELSE Kept([cue EXCEPT !.lineAlign = IF lineAlign # Undefined THEN lineAlign ELSE @,
                        !.snapToLines = ~isPercent,
                        !.linePosition = ParseFloat(numVal),
                        !.nonSerializable =
                            IF NumToStr(ParseFloat(numVal)) # numVal THEN TRUE ELSE @],
            pa)

\* setting === 'position'; `var positionAlign` is one variable for the whole
\* call of #parseSettings, assigned only when the value has a comma
SetPosition(cue, pa, value0) ==
  LET comp == Split(value0, {","})
      hasComma == Len(comp) > 1
      value == IF hasComma THEN comp[1] ELSE value0
      positionAlign == IF hasComma THEN comp[2] ELSE pa
      numVal == Take(value, Len(value) - 1)
  IN
  IF CharAt(value, Len(value)) # "%"
    THEN Failed(cue, positionAlign, "Text position must be a percentage.")
  ELSE IF NumGT(ParseInt(value), 100) \/ NumLT(ParseInt(value), 0)
    THEN Failed(cue, positionAlign, "Text position needs to be between 0 and 100%.")
  ELSE IF numVal = <<>> \/ isNaN(numVal) \/ ~isFinite(numVal)
    THEN Failed(cue, positionAlign, "Line position needs to be a number")
  ELSE IF positionAlign # Undefined
          /\ positionAlign \notin {<<"l", "i", "n", "e", "-", "l", "e", "f", "t">>, <<"c", "e", "n", "t", "e", "r">>, <<"l", "i", "n", "e", "-", "r", "i", "g", "h", "t">>}
    THEN Failed(cue, positionAlign,
                "Position alignment needs to be one of line-left, center or line-right")
  ELSE Kept([cue EXCEPT !.positionAlign =
                            IF positionAlign # Undefined THEN positionAlign ELSE @,
                        !.textPosition = ParseFloat(numVal)],
            positionAlign)

\* setting === 'size'
SetSize(cue, pa, value) ==
  LET size == Take(value, Len(value) - 1)
  IN
  IF CharAt(value, Len(value)) # "%" THEN Failed(cue, pa, "Size must be a percentage.")
  ELSE IF NumGT(ParseInt(value), 100) THEN Failed(cue, pa, "Size cannot be >100%.")
  ELSE IF size = <<>> \/ isNaN(size) THEN Failed(cue, pa, "Size needs to be a number")
  ELSE IF NumLT(ParseFloat(size), 0) \/ NumGT(ParseFloat(size), 100)
    THEN Failed(cue, pa, "Size needs to be between 0 and 100%.")
  ELSE Kept([cue EXCEPT !.size = ParseFloat(size)], pa)

\* setting === 'align'
SetAlign(cue, pa, value) ==
  IF value \notin {<<"s", "t", "a", "r", "t">>, <<"c", "e", "n", "t", "e", "r">>, <<"e", "n", "d">>, <<"l", "e", "f", "t">>, <<"r", "i", "g", "h", "t">>}
    THEN Failed(cue, pa,
                "Alignment can only be set to one of start, center, end, left, right.")
  ELSE Kept([cue EXCEPT !.alignment = value], pa)

\* The state of the loop of #parseSettings: the cue, the settings seen, the
\* variable positionAlign, the diagnostics, whether the loop has returned,
\* and (history) which tokens failed validation.
SettingsStart(cue) ==
  [cue |-> cue, seen |-> <<>>, positionAlign |-> Undefined, errs |-> <<>>,
   returned |-> FALSE, failed |-> <<>>]

\* one iteration of the loop, for settings[i] = tok
SettingStep(st, tok) ==
  LET index == IndexOf(tok, <<":">>)
      setting == IF index = 0 THEN Take(tok, Len(tok) - 1) ELSE Take(tok, index - 1)
      value == IF index = 0 THEN tok ELSE Drop(tok, index + 1)
      dup == IF \E k \in 1..Len(st.seen) : st.seen[k] = setting
               THEN <<"Duplicate setting.">> ELSE <<>>
      \* the loop state after the branch of the setting left r
      After(r) ==
        [cue |-> r.cue, seen |-> Append(st.seen, setting),
         positionAlign |-> r.positionAlign, errs |-> st.errs \o dup \o r.errs,
         returned |-> FALSE, failed |-> Append(st.failed, r.failed)]
  IN
  IF st.returned THEN [st EXCEPT !.failed = Append(@, FALSE)]
  ELSE IF tok = <<>> THEN [st EXCEPT !.failed = Append(@, FALSE)]
  ELSE IF value = <<>>
    THEN [st EXCEPT !.seen = Append(@, setting),
                    !.errs = @ \o dup \o <<"No value for setting defined.">>,
                    !.returned = TRUE,
                    !.failed = Append(@, TRUE)]
  ELSE After(CASE setting = <<"v", "e", "r", "t", "i", "c", "a", "l">> -> SetVertical(st.cue, st.positionAlign, value)
               [] setting = <<"l", "i", "n", "e">> -> SetLine(st.cue, st.positionAlign, value)
               [] setting = <<"p", "o", "s", "i", "t", "i", "o", "n">> -> SetPosition(st.cue, st.positionAlign, value)
               [] setting = <<"s", "i", "z", "e">> -> SetSize(st.cue, st.positionAlign, value)
               [] setting = <<"a", "l", "i", "g", "n">> -> SetAlign(st.cue, st.positionAlign, value)
               [] OTHER -> Failed(st.cue, st.positionAlign, "Invalid setting."))

RECURSIVE SettingsLoop(_, _, _)
SettingsLoop(st, settings, i) ==
  IF i > Len(settings) THEN st
  ELSE SettingsLoop(SettingStep(st, settings[i]), settings, i + 1)

\* #parseSettings(input, cue)
ParseSettings(input, cue) == SettingsLoop(SettingsStart(cue), Split(input, SPACE), 1)


(***************************************************************************)
(* WebVttCueTimingsAndSettingsParser: parse and parseTimestamp             *)
(***************************************************************************)

\* a variant that also reports an equal start, to try the properties against
StartBeforeMut(startTime, previousCueStart) == startTime <= previousCueStart

\* cue.startTime < previousCueStart
StartBefore(startTime, previousCueStart) == startTime < previousCueStart

\* cue.endTime <= cue.startTime
EndNotAfter(startTime, endTime) == endTime <= startTime

TimingsFail(cue, errs) == [ok |-> FALSE, cue |-> cue, errs |-> errs]

SeparatorMsg == "No valid timestamp separator found."

\* parse(cue, previousCueStart): whether it returned true, the cue as it left
\* it, and the diagnostics it gave its error handler (a failed timestamp
\* leaves undefined, here -1, in the cue)
TimingsParse(line, cue, previousCueStart) ==
  LET \* #parseSettings has run on the rest of the line
      Settings(errs, set) == [ok |-> TRUE, cue |-> set.cue, errs |-> errs \o set.errs]
      \* the end timestamp ts2 has been read
      End(cue1, errs, ts2) ==
        LET cue2 == [cue1 EXCEPT !.endTime = ts2.val]
        IN IF ~ts2.ok THEN TimingsFail(cue2, errs \o ts2.errs)
           ELSE Settings(errs \o (IF EndNotAfter(cue1.startTime, ts2.val)
                                    THEN <<"End timestamp is not greater than start timestamp.">>
                                    ELSE <<>>),
                         ParseSettings(Drop(line, Skip(line, ts2.pos, SPACE)), cue2))
      \* the cursor is at p1, where the separator has to be
      Separator(cue1, errs, p1) ==
        IF CharAt(line, p1) # "-" \/ CharAt(line, p1 + 1) # "-" \/ CharAt(line, p1 + 2) # ">"
          THEN TimingsFail(cue1, errs \o <<SeparatorMsg>>)
        ELSE End(cue1,
                 errs \o (IF NOSPACE_test(CharAt(line, p1 + 3))
                            THEN <<"'-->' not separated from timestamp by whitespace.">>
                            ELSE <<>>),
                 Timestamp(line, Skip(line, p1 + 3, SPACE)))
      \* the start timestamp ts1 has been read
      Start(ts1) ==
        IF ~ts1.ok THEN TimingsFail([cue EXCEPT !.startTime = ts1.val], ts1.errs)
        ELSE Separator([cue EXCEPT !.startTime = ts1.val],
                       (IF StartBefore(ts1.val, previousCueStart)
                          THEN <<"Start timestamp is not greater than or equal to start timestamp of previous cue.">>
                          ELSE <<>>)
                       \o (IF NOSPACE_test(CharAt(line, ts1.pos))
                             THEN <<"Timestamp not separated from '-->' by whitespace.">>
                             ELSE <<>>),
                       Skip(line, ts1.pos, SPACE))
  IN Start(Timestamp(line, Skip(line, 1, SPACE)))

\* parseTimestamp(): the timestamp of a <...> tag in cue text
ParseTimestamp(line) ==
  LET Checked(ts) ==
        IF CharAt(line, ts.pos) # NoChar
          THEN [ok |-> FALSE, val |-> -1, pos |-> ts.pos,
                errs |-> ts.errs \o <<"Timestamp must not have trailing characters.">>]
        ELSE ts
  IN Checked(Timestamp(line, 1))


(***************************************************************************)
(* WebVttCueTextParser: the tokenizer                                      *)
(***************************************************************************)

Alpha ==
  {"a", "b", "c", "d", "e", "f", "g", "h", "i", "j", "k", "l", "m", "n", "o", "p",
   "q", "r", "s", "t", "u", "v", "w", "x", "y", "z",
   "A", "B", "C", "D", "E", "F", "G", "H", "I", "J", "K", "L", "M", "N", "O", "P",
   "Q", "R", "S", "T", "U", "V", "W", "X", "Y", "Z"}

\* The default entity table in the order makeEntityRegex tries the names:
\* sorted by descending length, names of one length in the table's order.
\* The characters U+200E, U+200F and U+00A0 are written by name.
Entities ==
  << [key |-> <<"&", "n", "b", "s", "p", ";">>, val |-> "NBSP"], [key |-> <<"&", "a", "m", "p", ";">>, val |-> "&"],
     [key |-> <<"&", "l", "r", "m", ";">>, val |-> "LRM"], [key |-> <<"&", "r", "l", "m", ";">>, val |-> "RLM"],
     [key |-> <<"&", "n", "b", "s", "p">>, val |-> "NBSP"], [key |-> <<"&", "l", "t", ";">>, val |-> "<"],
     [key |-> <<"&", "g", "t", ";">>, val |-> ">"], [key |-> <<"&", "a", "m", "p">>, val |-> "&"],
     [key |-> <<"&", "l", "r", "m">>, val |-> "LRM"], [key |-> <<"&", "r", "l", "m">>, val |-> "RLM"],
     [key |-> <<"&", "l", "t">>, val |-> "<"], [key |-> <<"&", "g", "t">>, val |-> ">"] >>

\* line.slice(pos).match(entityRegex): the index of the first name that the
\* text at pos starts with, 0 when there is none
RECURSIVE EntityMatch(_, _, _)
EntityMatch(line, pos, k) ==
  IF k > Len(Entities) THEN 0
  ELSE IF pos + Len(Entities[k].key) - 1 <= Len(line)
          /\ SubSeq(line, pos, pos + Len(Entities[k].key) - 1) = Entities[k].key
    THEN k
  ELSE EntityMatch(line, pos, k + 1)

\* the largest code point String.fromCodePoint takes: 0x10FFFF
MaxCodePoint == 1114111

\* the one-character string of a code point
CodePointChar(n) ==
  CASE n = 38 -> "&" [] n = 60 -> "<" [] n = 62 -> ">" [] n = 65 -> "A"
    [] n = 97 -> "a" [] OTHER -> "U+" \o ToString(n)

\* parseInt(digits, 16) of a run of decimal digits
RECURSIVE HexVal(_)
HexVal(ds) ==
  IF ds = <<>> THEN 0 ELSE 16 * HexVal(SubSeq(ds, 1, Len(ds) - 1)) + DigitVal(ds[Len(ds)])

\* buffer.match(/^&#([0-9]+)$/): the digits, <<>> when there is no match
MatchDecRef(buffer) ==
  IF Len(buffer) >= 3 /\ SubSeq(buffer, 1, 2) = <<"&", "#">> /\ RunEnd(buffer, 3, Digit) = Len(buffer) + 1
    THEN Drop(buffer, 3) ELSE <<>>

\* buffer.match(/^&#(x)?([0-9]+)$/): [ok, hex, digits]
MatchNumRef(buffer) ==
  IF MatchDecRef(buffer) # <<>>
    THEN [ok |-> TRUE, hex |-> FALSE, digits |-> Drop(buffer, 3)]
  ELSE IF Len(buffer) >= 4 /\ SubSeq(buffer, 1, 3) = <<"&", "#", "x">>
          /\ RunEnd(buffer, 4, Digit) = Len(buffer) + 1
    THEN [ok |-> TRUE, hex |-> TRUE, digits |-> Drop(buffer, 4)]
  ELSE [ok |-> FALSE, hex |-> FALSE, digits |-> <<>>]

\* whether String.fromCodePoint(n) raises RangeError
FromCodePointThrows(n) == n > MaxCodePoint

\* a variant that reports in every mode, to try the properties against
TextErrsMut(mode, msgs) == msgs

\* #err(message) of the cue-text parser, for each of msgs: nothing in
\* metadata mode
TextErrs(mode, msgs) == IF mode = "metadata" THEN <<>> ELSE msgs

TextErr(mode, msg) == TextErrs(mode, <<msg>>)

\* buffer.split(/[ \t\f\r\n]+/).filter(Boolean).join(' ')
RECURSIVE NormalizeAnnotation(_)
NormalizeAnnotation(buffer) ==
  LET ws == {" ", "\t", "\f", "\r", "\n"}
      b == Drop(buffer, RunEnd(buffer, 1, ws))
      e == RunEnd(b, 1, {c \in {b[i] : i \in 1..Len(b)} : c \notin ws})
      rest == NormalizeAnnotation(Drop(b, e))
  IN IF b = <<>> THEN <<>>
     ELSE SubSeq(b, 1, e - 1) \o (IF rest = <<>> THEN <<>> ELSE <<" ">> \o rest)

Token(type, name, classes, annotation, pos, errs) ==
  [type |-> type, name |-> name, classes |-> classes, annotation |-> annotation,
   pos |-> pos, errs |-> errs, threw |-> FALSE]

\* String.fromCodePoint raised: no token is returned
Thrown(pos, errs) ==
  [type |-> "none", name |-> <<>>, classes |-> <<>>, annotation |-> <<>>,
   pos |-> pos, errs |-> errs, threw |-> TRUE]

\* The loop of #nextToken from position pos in state `state`; the token
\* carries the position the call leaves and the diagnostics it raised.
RECURSIVE TokenLoop(_, _, _, _, _, _, _, _)
TokenLoop(line, mode, pos, state, result, buffer, classes, errs) ==
  LET c == CharAt(line, pos)
      gt == IF c = ">" THEN pos + 1 ELSE pos     \* if (c === '>') this.#pos++
      pushed == IF buffer # <<>> THEN Append(classes, buffer) ELSE classes
      bad == errs \o TextErr(mode, "Incorrect escape.")
  IN
  CASE state = "data" ->
         IF c = "&" THEN
           LET k == EntityMatch(line, pos, 1)
           IN IF k # 0
                THEN TokenLoop(line, mode, pos + Len(Entities[k].key), "data",
                               Append(result, Entities[k].val), buffer, classes, errs)
                ELSE TokenLoop(line, mode, pos + 1, "escape", result, <<c>>, classes, errs)
         ELSE IF c = "<" /\ result = <<>>
           THEN TokenLoop(line, mode, pos + 1, "tag", result, buffer, classes, errs)
         ELSE IF c = "<" \/ c = NoChar
           THEN Token("text", result, <<>>, <<>>, pos, errs)
         ELSE TokenLoop(line, mode, pos + 1, "data", Append(result, c), buffer, classes, errs)
    [] state = "escape" ->
         IF c = "<" \/ c = NoChar THEN
           LET m == MatchDecRef(buffer)
           IN IF m # <<>>
                THEN IF FromCodePointThrows(DigitsVal(m)) THEN Thrown(pos, bad)
                     ELSE Token("text", Append(result, CodePointChar(DigitsVal(m))),
                                <<>>, <<>>, pos, bad)
                ELSE Token("text", result \o buffer, <<>>, <<>>, pos, bad)
         ELSE IF c = "&"
           THEN TokenLoop(line, mode, pos + 1, "escape", result \o buffer, <<c>>, classes, bad)
         ELSE IF c \in Alpha \cup Digit \cup {"#"}
           THEN TokenLoop(line, mode, pos + 1, "escape", result, Append(buffer, c), classes, errs)
         ELSE IF c = ";" THEN
           LET m == MatchNumRef(buffer)
               n == IF m.hex THEN HexVal(m.digits) ELSE DigitsVal(m.digits)
           IN IF m.ok
                THEN IF FromCodePointThrows(n) THEN Thrown(pos, errs)
                     ELSE TokenLoop(line, mode, pos + 1, "data",
                                    Append(result, CodePointChar(n)), buffer, classes, errs)
                ELSE TokenLoop(line, mode, pos + 1, "data", result \o buffer \o <<";">>,
                               buffer, classes, bad)
         ELSE TokenLoop(line, mode, pos + 1, "data", result \o buffer \o <<c>>,
                        buffer, classes, bad)
    [] state = "tag" ->
         IF c \in {"\t", "\n", "\f", " "}
           THEN TokenLoop(line, mode, pos + 1, "start tag annotation", result, buffer, classes, errs)
         ELSE IF c = "."
           THEN TokenLoop(line, mode, pos + 1, "start tag class", result, buffer, classes, errs)
         ELSE IF c = "/"
           THEN TokenLoop(line, mode, pos + 1, "end tag", result, buffer, classes, errs)
         ELSE IF c \in Digit
           THEN TokenLoop(line, mode, pos + 1, "timestamp tag", <<c>>, buffer, classes, errs)
         ELSE IF c = ">" \/ c = NoChar
           THEN Token("start tag", <<>>, <<>>, <<>>, gt, errs)
         ELSE TokenLoop(line, mode, pos + 1, "start tag", <<c>>, buffer, classes, errs)
    [] state = "start tag" ->
         IF c \in {"\t", "\f", " "}
           THEN TokenLoop(line, mode, pos + 1, "start tag annotation", result, buffer, classes, errs)
         ELSE IF c = "\n"
           THEN TokenLoop(line, mode, pos + 1, "start tag annotation", result, <<c>>, classes, errs)
         ELSE IF c = "."
           THEN TokenLoop(line, mode, pos + 1, "start tag class", result, buffer, classes, errs)
         ELSE IF c = ">" \/ c = NoChar
           THEN Token("start tag", result, <<>>, <<>>, gt, errs)
         ELSE TokenLoop(line, mode, pos + 1, "start tag", Append(result, c), buffer, classes, errs)
    [] state = "start tag class" ->
         IF c \in {"\t", "\f", " "}
           THEN TokenLoop(line, mode, pos + 1, "start tag annotation", result, <<>>, pushed, errs)
         ELSE IF c = "\n"
           THEN TokenLoop(line, mode, pos + 1, "start tag annotation", result, <<c>>, pushed, errs)
         ELSE IF c = "."
           THEN TokenLoop(line, mode, pos + 1, "start tag class", result, <<>>, pushed, errs)
         ELSE IF c = ">" \/ c = NoChar
           THEN Token("start tag", result, pushed, <<>>, gt, errs)
         ELSE TokenLoop(line, mode, pos + 1, "start tag class", result, Append(buffer, c),
                        classes, errs)
    [] state = "start tag annotation" ->
         IF c = ">" \/ c = NoChar
           THEN Token("start tag", result, classes, NormalizeAnnotation(buffer), gt, errs)
         ELSE TokenLoop(line, mode, pos + 1, "start tag annotation", result, Append(buffer, c),
                        classes, errs)
    [] state = "end tag" ->
         IF c = ">" \/ c = NoChar THEN Token("end tag", result, <<>>, <<>>, gt, errs)
         ELSE TokenLoop(line, mode, pos + 1, "end tag", Append(result, c), buffer, classes, errs)
    [] state = "timestamp tag" ->
         IF c = ">" \/ c = NoChar THEN Token("timestamp", result, <<>>, <<>>, gt, errs)
         ELSE TokenLoop(line, mode, pos + 1, "timestamp tag", Append(result, c), buffer,
                        classes, errs)

\* a variant whose 'data' state lacks the branch to the 'tag' state, so that
\* '<' at the start of a token ends an empty text token, to try the
\* properties against
NextTokenMut(line, mode, pos) ==
  IF CharAt(line, pos) = "<" THEN Token("text", <<>>, <<>>, <<>>, pos, <<>>)
  ELSE TokenLoop(line, mode, pos, "data", <<>>, <<>>, <<>>, <<>>)

\* #nextToken()
NextToken(line, mode, pos) == TokenLoop(line, mode, pos, "data", <<>>, <<>>, <<>>, <<>>)


(***************************************************************************)
(* WebVttCueTextParser: the tree builder.  The objects parse() builds are  *)
(* nodes[1..n], nodes[1] the root `result`; a reference to an object is    *)
(* its index, and parent = 0 is an object without a parent property.       *)
(***************************************************************************)

Root == 1

NoValue == Undefined

RootNode ==
  [type |-> "root", name |-> Undefined, classes |-> <<>>, value |-> NoValue,
   time |-> 0, children |-> <<>>, parent |-> 0]

\* the state of parse(): cursor, objects, `current`, `timestamps`, the
\* diagnostics given to the error handler, and whether an exception left it
TextStart ==
  [pos |-> 1, nodes |-> <<RootNode>>, current |-> Root, timestamps |-> <<>>,
   errs |-> <<>>, threw |-> FALSE]

\* current.children.push(node): the new object is a child of current
PushChild(st, node) ==
  [st EXCEPT !.nodes = Append([@ EXCEPT ![st.current].children = Append(@, Len(st.nodes) + 1)],
                              node)]

\* attach(token), then current.value = value when the tag carries one
Attach(st, token, value) ==
  [PushChild(st, [type |-> "object", name |-> token.name, classes |-> token.classes,
                  value |-> value, time |-> 0, children |-> <<>>,
                  parent |-> st.current])
     EXCEPT !.current = Len(st.nodes) + 1]

\* inScope(name)
RECURSIVE InScopeFrom(_, _, _)
InScopeFrom(nodes, node, name) ==
  IF node = 0 THEN FALSE
  ELSE IF nodes[node].name = name THEN TRUE
  ELSE InScopeFrom(nodes, nodes[node].parent, name)

\* a variant that looks at current only, to try the properties against
inScopeMut(st, name) == st.nodes[st.current].name = name

\* inScope(name), called on the parser's state
inScope(st, name) == InScopeFrom(st.nodes, st.current, name)

AddErrs(st, errs) == [st EXCEPT !.errs = @ \o errs]

\* a variant that attaches rt anywhere, to try the properties against
RtAttachesMut(st, name) == name = <<"r", "t">>

\* name === 'rt' && current.name === 'ruby'
RtAttaches(st, name) == name = <<"r", "t">> /\ st.nodes[st.current].name = <<"r", "u", "b", "y">>

\* the start tag branch of parse()
StartTag(st0, token, mode) ==
  LET name == token.name
      st == AddErrs(st0,
              (IF mode = "chapters"
                 THEN TextErr(mode, "Start tags not allowed in chapter title text.") ELSE <<>>)
              \o (IF name # <<"v">> /\ name # <<"l", "a", "n", "g">> /\ token.annotation # <<>>
                    THEN TextErr(mode, "Only <v> and <lang> can have an annotation.")
                    ELSE <<>>))
  IN
  IF name \in {<<"c">>, <<"i">>, <<"b">>, <<"u">>, <<"r", "u", "b", "y">>} THEN Attach(st, token, NoValue)
  ELSE IF RtAttaches(st, name) THEN Attach(st, token, NoValue)
  ELSE IF name = <<"v">>
    THEN AddErrs(Attach(st, token, token.annotation),
                 (IF inScope(st, <<"v">>)
                    THEN TextErr(mode, "<v> cannot be nested inside itself.") ELSE <<>>)
                 \o (IF token.annotation = <<>>
                       THEN TextErr(mode, "<v> requires an annotation.") ELSE <<>>))
  ELSE IF name = <<"l", "a", "n", "g">> THEN Attach(st, token, token.annotation)
  ELSE AddErrs(st, TextErr(mode, "Incorrect start tag."))

\* a variant that lets any end tag close the current element, to try the
\* properties against
EndTagMut(st0, token, mode) ==
  LET st == AddErrs(st0, IF mode = "chapters"
                           THEN TextErr(mode, "End tags not allowed in chapter title text.")
                           ELSE <<>>)
      cur == st.nodes[st.current]
  IN
  IF cur.parent # 0 THEN [st EXCEPT !.current = cur.parent]
  ELSE AddErrs(st, TextErr(mode, "Incorrect end tag."))

\* the end tag branch of parse()
EndTag(st0, token, mode) ==
  LET st == AddErrs(st0, IF mode = "chapters"
                           THEN TextErr(mode, "End tags not allowed in chapter title text.")
                           ELSE <<>>)
      cur == st.nodes[st.current]
  IN
  IF token.name = cur.name THEN [st EXCEPT !.current = cur.parent]
  ELSE IF token.name = <<"r", "u", "b", "y">> /\ cur.name = <<"r", "t">>
    THEN [st EXCEPT !.current = st.nodes[cur.parent].parent]
  ELSE AddErrs(st, TextErr(mode, "Incorrect end tag."))

\* the timestamp branch of parse(); the timing parser reports through #err
TimestampTag(st0, token, mode, cueStart, cueEnd) ==
  LET st == AddErrs(st0, IF mode = "chapters"
                           THEN TextErr(mode, "Timestamp not allowed in chapter title text.")
                           ELSE <<>>)
      n == Len(st.timestamps)
      \* timings.parseTimestamp() has returned ts
      Parsed(ts) ==
        IF ~ts.ok THEN AddErrs(st, TextErrs(mode, ts.errs))
        ELSE [PushChild(AddErrs(st,
                  TextErrs(mode, ts.errs)
                  \o (IF ts.val <= cueStart \/ ts.val >= cueEnd
                        THEN TextErr(mode, "Timestamp must be between start timestamp and end timestamp.")
                        ELSE <<>>)
                  \o (IF n > 0 /\ st.timestamps[n] >= ts.val
                        THEN TextErr(mode, "Timestamp must be greater than any previous timestamp.")
                        ELSE <<>>)),
                [type |-> "timestamp", name |-> Undefined, classes |-> <<>>, value |-> NoValue,
                 time |-> ts.val, children |-> <<>>, parent |-> st.current])
              EXCEPT !.timestamps = Append(@, ts.val)]
  IN Parsed(ParseTimestamp(token.name))

\* one iteration of the token loop of parse()
TextIter(line, mode, cueStart, cueEnd, st) ==
  LET \* #nextToken() has returned token
      Branch(token) ==
        LET st1 == [AddErrs(st, token.errs) EXCEPT !.pos = token.pos]
        IN CASE token.threw -> [st1 EXCEPT !.threw = TRUE]
             [] token.type = "text" ->
                  PushChild(st1, [type |-> "text", name |-> Undefined, classes |-> <<>>,
                                  value |-> token.name, time |-> 0, children |-> <<>>,
                                  parent |-> st1.current])
             [] token.type = "start tag" -> StartTag(st1, token, mode)
             [] token.type = "end tag" -> EndTag(st1, token, mode)
             [] token.type = "timestamp" -> TimestampTag(st1, token, mode, cueStart, cueEnd)
  IN Branch(NextToken(line, mode, st.pos))

\* a variant that reports v elements too, to try the properties against
RECURSIVE MissingEndTagsMut(_, _, _)
MissingEndTagsMut(nodes, node, mode) ==
  IF nodes[node].parent = 0 THEN <<>>
  ELSE TextErr(mode, "Required end tag missing.")
         \o MissingEndTagsMut(nodes, nodes[node].parent, mode)

\* the walk up from current at the end of input: its diagnostics
RECURSIVE MissingEndTags(_, _, _)
MissingEndTags(nodes, node, mode) ==
  IF nodes[node].parent = 0 THEN <<>>
  ELSE (IF nodes[node].name # <<"v">> THEN TextErr(mode, "Required end tag missing.") ELSE <<>>)
         \o MissingEndTags(nodes, nodes[node].parent, mode)

\* a variant that leaves `parent` on text nodes, to try the properties against
StripParentMut(node, children) ==
  IF node.type = "object"
    THEN (IF node.value = NoValue
            THEN [type |-> "object", name |-> node.name, classes |-> node.classes,
                  children |-> children]
            ELSE [type |-> "object", name |-> node.name, classes |-> node.classes,
                  children |-> children, value |-> node.value])
  ELSE IF node.type = "text" THEN [type |-> "text", value |-> node.value, parent |-> node.parent]
  ELSE IF node.type = "timestamp" THEN [type |-> "timestamp", value |-> node.time]
  ELSE [children |-> children]

\* { ...tree } without its parent property when delete removes it
\* the copy removeCycles returns for one object, given its copied children:
\* the own properties of the object, less `parent` (always an object, so
\* truthy, where it is present)
StripParent(node, children) ==
  CASE node.type = "root" -> [children |-> children]
    [] node.type = "text" -> [type |-> "text", value |-> node.value]
    [] node.type = "timestamp" -> [type |-> "timestamp", value |-> node.time]
    [] node.type = "object" /\ node.value = NoValue ->
         [type |-> "object", name |-> node.name, classes |-> node.classes,
          children |-> children]
    [] OTHER ->
         [type |-> "object", name |-> node.name, classes |-> node.classes,
          children |-> children, value |-> node.value]

\* removeCycles(tree)
RECURSIVE removeCycles(_, _)
removeCycles(nodes, node) ==
  StripParent(nodes[node],
              [k \in 1..Len(nodes[node].children) |->
                 removeCycles(nodes, nodes[node].children[k])])

\* parse(cueStart, cueEnd) from a state of its token loop to its end
RECURSIVE TextRun(_, _, _, _, _)
TextRun(line, mode, cueStart, cueEnd, st) ==
  IF st.threw \/ CharAt(line, st.pos) = NoChar THEN st
  ELSE TextRun(line, mode, cueStart, cueEnd, TextIter(line, mode, cueStart, cueEnd, st))

\* new WebVttCueTextParser(line, err, mode, ...).parse(cueStart, cueEnd)
CueTextParse(line, mode, cueStart, cueEnd) ==
  LET \* the token loop has ended in st
      End(st) ==
        IF st.threw THEN [threw |-> TRUE, tree |-> [children |-> <<>>], errs |-> st.errs]
        ELSE [threw |-> FALSE, tree |-> removeCycles(st.nodes, Root),
              errs |-> st.errs \o MissingEndTags(st.nodes, st.current, mode)]
  IN End(TextRun(line, mode, cueStart, cueEnd, TextStart))


(***************************************************************************)
(* WebVttParser.parse: the cue assembler.  lines[1] is the signature line; *)
(* linePos is the code's linePos + 1, which is also the line number a      *)
(* diagnostic carries.                                                     *)
(***************************************************************************)

Arrow == <<"-", "-", ">">>

\* lines[p].indexOf('-->') !== -1
HasArrow(line) == IndexOf(line, Arrow) # 0

\* lines[p], undefined (NoLine) past the end
NoLine == Undefined
LineAt(ls, p) == IF p >= 1 /\ p <= Len(ls) THEN ls[p] ELSE NoLine

\* lines[p] !== '' && lines[p] != null
InBlock(ls, p) == LineAt(ls, p) # <<>> /\ LineAt(ls, p) # NoLine

\* input.split(NEWLINE), NEWLINE = /\r\n|\r|\n/
RECURSIVE SplitLines(_)
SplitLines(s) ==
  LET e == RunEnd(s, 1, {c \in {s[i] : i \in 1..Len(s)} : c \notin {"\r", "\n"}})
      skip == IF CharAt(s, e) = "\r" /\ CharAt(s, e + 1) = "\n" THEN 2 ELSE 1
  IN IF e > Len(s) THEN <<s>>
     ELSE <<SubSeq(s, 1, e - 1)>> \o SplitLines(Drop(s, e + skip))

\* input.replace(/\0/g, '�'), the two characters written by name
ReplaceNul(s) == [i \in 1..Len(s) |-> IF s[i] = "NUL" THEN "FFFD" ELSE s[i]]

\* /^NOTE(<<"|", "[", " ", "\t", "]", ")", "/", ".", "t", "e", "s", "t", "(", "i", "d", ")", " ", "a", "n", "d", " ", "/", "^", "S", "T", "Y", "L", "E", "(">>|[ \t])/.test(id)
StartsBlock(id, word) ==
  /\ Len(id) >= Len(word)
  /\ SubSeq(id, 1, Len(word)) = word
  /\ (Len(id) = Len(word) \/ id[Len(word) + 1] \in {" ", "\t"})

IsNote(id) == StartsBlock(id, <<"N", "O", "T", "E">>)
IsStyle(id) == StartsBlock(id, <<"S", "T", "Y", "L", "E">>)

Diag(message, line) == [message |-> message, line |-> line]

\* the diagnostics msgs as err() records them while linePos is line
DiagsAt(msgs, line) == [k \in 1..Len(msgs) |-> Diag(msgs[k], line)]

\* the SIGNATURE test: whether lines[0] is no valid signature line
BadSignature(line) ==
  LET bom == IF CharAt(line, 1) = "BOM" THEN 1 ELSE 0
      signatureLength == 6 + bom
  IN \/ Len(line) < signatureLength
     \/ IndexOf(line, <<"W", "E", "B", "V", "T", "T">>) # 1 + bom
     \/ /\ Len(line) > signatureLength
        /\ line[signatureLength + 1] # " "
        /\ line[signatureLength + 1] # "\t"

\* a variant without the break, to try the properties against
RECURSIVE BlockEndMut(_, _, _)
BlockEndMut(ls, p, stop) == IF ~InBlock(ls, p) THEN p ELSE BlockEndMut(ls, p + 1, stop)

\* A loop `while (lines[linePos] !== '' && lines[linePos] != null)` from p
\* that breaks at a line with '-->' when stop is set: where it ends
RECURSIVE BlockEnd(_, _, _)
BlockEnd(ls, p, stop) ==
  IF ~InBlock(ls, p) THEN p
  ELSE IF stop /\ HasArrow(ls[p]) THEN p
  ELSE BlockEnd(ls, p + 1, stop)

\* a variant that reports the first such line only, to try the properties
\* against
ArrowDiagsMut(ls, p, q, msg) ==
  LET hit == {k \in p..(q - 1) : HasArrow(ls[k])}
  IN IF hit = {} THEN <<>>
     ELSE <<Diag(msg, CHOOSE k \in hit : \A m \in hit : k <= m)>>

\* the lines p..q-1 that hold '-->', each with msg as its diagnostic
ArrowDiags(ls, p, q, msg) ==
  LET hit == {k \in p..(q - 1) : HasArrow(ls[k])}
      F[k \in p..q] == IF k = q THEN <<>>
                       ELSE (IF k \in hit THEN <<Diag(msg, k)>> ELSE <<>>) \o F[k + 1]
  IN F[p]

\* a variant that takes the line the loop stopped at too, to try the
\* properties against
RECURSIVE JoinLinesMut(_, _, _)
JoinLinesMut(ls, p, q) ==
  IF p > q \/ p > Len(ls) THEN <<>>
  ELSE IF p = q \/ p = Len(ls) THEN ls[p]
  ELSE ls[p] \o <<"\n">> \o JoinLinesMut(ls, p + 1, q)

\* lines p..q-1 joined by '\n'
RECURSIVE JoinLines(_, _, _)
JoinLines(ls, p, q) ==
  IF p >= q THEN <<>>
  ELSE IF p = q - 1 THEN ls[p]
  ELSE ls[p] \o <<"\n">> \o JoinLines(ls, p + 1, q)

\* the state of parse() after the signature and HEADER: the split lines,
\* the cursor and the recovery flag, the diagnostics so far
ParseHead(input) ==
  LET ls == SplitLines(ReplaceNul(input))
      sig == IF BadSignature(ls[1])
               THEN <<Diag("No valid signature. (File needs to start with \"WEBVTT\".)", 1)>>
               ELSE <<>>
      e == BlockEnd(ls, 2, TRUE)
  IN [lines |-> ls, linePos |-> e, alreadyCollected |-> InBlock(ls, e),
      errors |-> sig \o [k \in 1..((IF InBlock(ls, e) THEN e ELSE e - 1) - 1) |->
                           Diag("No blank line after the signature.", k + 1)]]


\* while (!alreadyCollected && lines[linePos] === '') linePos++
RECURSIVE SkipBlank(_, _, _)
SkipBlank(ls, p, alreadyCollected) ==
  IF ~alreadyCollected /\ LineAt(ls, p) = <<>> THEN SkipBlank(ls, p + 1, alreadyCollected)
  ELSE p

\* whether the CUE LOOP ends here: its condition fails, or its break is taken
LoopEnds(ls, p, alreadyCollected) ==
  \/ LineAt(ls, p) = NoLine
  \/ ~alreadyCollected /\ LineAt(ls, SkipBlank(ls, p, alreadyCollected)) = NoLine

\* what one iteration of the CUE LOOP leaves: the cursor, the flag, the cue
\* and style lists, the diagnostics it added, whether an exception left
\* parse(), and (history) the branch it took, the line the block began at
\* and the line it gave the timing parser (0: none)
Iter(branch, at, timing, p, ac, cues, styles, errs) ==
  [branch |-> branch, at |-> at, timing |-> timing, linePos |-> p,
   alreadyCollected |-> ac, cues |-> cues, styles |-> styles, errs |-> errs,
   threw |-> FALSE]

\* a variant that forgets the cues, to try the properties against
StyleKeptMut(cues, invalid) == ~invalid

\* a STYLE block joins the styles: !invalid, and no cue before it
StyleKept(cues, invalid) == cues = <<>> /\ ~invalid

\* the NOTE branch: the block is skipped
NoteBlock(ls, p0, cues, styles) ==
  LET e == BlockEnd(ls, p0 + 1, FALSE)
  IN Iter("note", p0, 0, e, FALSE, cues, styles,
          ArrowDiags(ls, p0 + 1, e, "Cannot have timestamp in a comment."))

\* the STYLES branch
StyleBlock(ls, p0, cues, styles) ==
  LET e == BlockEnd(ls, p0 + 1, FALSE)
      arrows == ArrowDiags(ls, p0 + 1, e, "Cannot have timestamp in a style block.")
      invalid == arrows # <<>>
  IN Iter("style", p0, 0, e, FALSE, cues,
          IF StyleKept(cues, invalid) THEN Append(styles, JoinLines(ls, p0 + 1, e))
          ELSE styles,
          arrows \o (IF cues # <<>>
                       THEN <<Diag("Style blocks cannot appear after the first cue.", e)>>
                       ELSE <<>>))

\* TIMINGS to the end of the iteration, for the timing line lines[pt]
TimingsBlock(ls, p0, pt, id, cues, styles, mode) ==
  LET previousCueStart == IF cues # <<>> THEN cues[Len(cues)].startTime ELSE 0
      cue0 == [DefaultCue EXCEPT !.id = id, !.ord = Len(cues) + 1, !.src = pt]
      e == BlockEnd(ls, pt + 1, TRUE)         \* BAD CUE LOOP, CUE TEXT LOOP
      missing == IF InBlock(ls, e) THEN <<Diag("Blank line missing before cue.", e)>>
                 ELSE <<>>
      \* CUE TEXT PROCESSING has run, or raised
      Processed(timings, text, parsed) ==
        IF parsed.threw
          THEN [Iter("cue", p0, pt, e, InBlock(ls, e), cues, styles,
                     DiagsAt(timings.errs, pt) \o missing \o DiagsAt(parsed.errs, e))
                  EXCEPT !.threw = TRUE]
        ELSE Iter("cue", p0, pt, e, InBlock(ls, e),
                  Append(cues, [timings.cue EXCEPT !.text = text, !.tree = parsed.tree]),
                  styles,
                  DiagsAt(timings.errs, pt) \o missing \o DiagsAt(parsed.errs, e))
      \* the CUE TEXT LOOP has collected text
      Collected(timings, text) ==
        Processed(timings, text,
                  CueTextParse(text, mode, timings.cue.startTime, timings.cue.endTime))
      \* timings.parse(cue, previousCueStart) has returned
      Timed(timings) ==
        IF ~timings.ok
          THEN Iter("bad cue", p0, pt, e, InBlock(ls, e), cues, styles,
                    DiagsAt(timings.errs, pt))
        ELSE Collected(timings, JoinLines(ls, pt + 1, e))
  IN Timed(TimingsParse(ls[pt], cue0, previousCueStart))

\* one iteration of the CUE LOOP that does not end the loop
CueLoopIter(ls, linePos, alreadyCollected, cues, styles, mode) ==
  LET p0 == SkipBlank(ls, linePos, alreadyCollected)
      id == ls[p0]
      timed == HasArrow(ls[p0])      \* no cue identifier: the line is the timing line
  IN
  IF ~timed /\ IsNote(id) THEN NoteBlock(ls, p0, cues, styles)
  ELSE IF ~timed /\ IsStyle(id) THEN StyleBlock(ls, p0, cues, styles)
  ELSE IF ~timed /\ ~InBlock(ls, p0 + 1)
    THEN Iter("standalone", p0, 0, p0 + 1, alreadyCollected, cues, styles,
              <<Diag("Cue identifier cannot be standalone.", p0 + 1)>>)
  ELSE IF ~timed /\ ~HasArrow(ls[p0 + 1])
    THEN Iter("no timestamp", p0, 0, p0 + 1, alreadyCollected, cues, styles,
              <<Diag("Cue identifier needs to be followed by timestamp.", p0 + 1)>>)
  ELSE TimingsBlock(ls, p0, IF timed THEN p0 ELSE p0 + 1, IF timed THEN <<>> ELSE id,
                    cues, styles, mode)

\* a variant that compares startTime only, to try the properties against
CompareMut(a, b) == a.startTime - b.startTime

\* a.startTime - b.startTime || a.endTime - b.endTime
Compare(a, b) ==
  IF a.startTime - b.startTime # 0 THEN a.startTime - b.startTime
  ELSE a.endTime - b.endTime

\* x put into the sorted sequence s behind every element that does not
\* compare greater than it
RECURSIVE Insert(_, _)
Insert(s, x) ==
  IF s = <<>> THEN <<x>>
  ELSE IF Compare(s[Len(s)], x) <= 0 THEN Append(s, x)
  ELSE Append(Insert(SubSeq(s, 1, Len(s) - 1), x), s[Len(s)])

\* cues.sort(compare): Array.prototype.sort is stable
RECURSIVE Sort(_)
Sort(s) == IF s = <<>> THEN <<>> ELSE Insert(Sort(SubSeq(s, 1, Len(s) - 1)), s[Len(s)])


(***************************************************************************)
(* WebVttSerializer                                                        *)
(***************************************************************************)

\* a variant that does not pad the milliseconds, to try the properties against
SerializeTimestampMut(seconds) ==
  LET h == IF seconds >= 3600000 THEN seconds \div 3600000 ELSE 0
      m == (seconds - 3600000 * h) \div 60000
      s == (seconds - 3600000 * h - 60000 * m) \div 1000
  IN (IF h # 0 THEN NatToStr(h) \o <<":">> ELSE <<>>)
       \o PadZeros(NatToStr(m), 2) \o <<":">> \o PadZeros(NatToStr(s), 2) \o <<".">>
       \o NatToStr(seconds % 1000)

\* #serializeTimestamp(seconds), for a time of whole milliseconds
SerializeTimestamp(seconds) ==
  LET ms == PadZeros(NatToStr(seconds % 1000), 3)
      h == IF seconds >= 3600000 THEN seconds \div 3600000 ELSE 0
      m == (seconds - 3600000 * h) \div 60000
      s == (seconds - 3600000 * h - 60000 * m) \div 1000
  IN (IF h # 0 THEN NatToStr(h) \o <<":">> ELSE <<>>)
       \o PadZeros(NatToStr(m), 2) \o <<":">> \o PadZeros(NatToStr(s), 2) \o <<".">> \o ms

\* a !== b for two numbers or 'auto' (-0 and 0 are equal)
StrictNotEqual(a, b) ==
  ~(a = b \/ (a.kind = "num" /\ b.kind = "num" /\ a.mant = 0 /\ b.mant = 0))

\* #serializeCueSettings(cue)
SerializeCueSettings(cue) ==
  (IF cue.direction # DefaultCue.direction THEN <<" ", "v", "e", "r", "t", "i", "c", "a", "l", ":">> \o cue.direction ELSE <<>>)
    \o (IF cue.alignment # DefaultCue.alignment THEN <<" ", "a", "l", "i", "g", "n", ":">> \o cue.alignment ELSE <<>>)
    \o (IF StrictNotEqual(cue.size, DefaultCue.size)
          THEN <<" ", "s", "i", "z", "e", ":">> \o NumToStr(cue.size) \o <<"%">> ELSE <<>>)
    \o (IF cue.lineAlign # DefaultCue.lineAlign
             \/ StrictNotEqual(cue.linePosition, DefaultCue.linePosition)
          THEN <<" ", "l", "i", "n", "e", ":">> \o NumToStr(cue.linePosition)
                 \o (IF cue.snapToLines THEN <<>> ELSE <<"%">>)
                 \o (IF cue.lineAlign # <<>> /\ cue.lineAlign # DefaultCue.lineAlign
                       THEN <<",">> \o cue.lineAlign ELSE <<>>)
        ELSE <<>>)
    \o (IF StrictNotEqual(cue.textPosition, DefaultCue.textPosition)
             \/ cue.positionAlign # DefaultCue.positionAlign
          THEN <<" ", "p", "o", "s", "i", "t", "i", "o", "n", ":">> \o NumToStr(cue.textPosition) \o <<"%">>
                 \o (IF cue.positionAlign # <<>> /\ cue.positionAlign # DefaultCue.positionAlign
                       THEN <<",">> \o cue.positionAlign ELSE <<>>)
        ELSE <<>>)

\* the timing line of #serializeCue(cue)
SerializeTimings(cue) ==
  SerializeTimestamp(cue.startTime) \o <<" ", "-", "-", ">", " ">> \o SerializeTimestamp(cue.endTime)
    \o SerializeCueSettings(cue)


(***************************************************************************)
(* State                                                                   *)
(***************************************************************************)

VARIABLES
  \* a WebVttCueTimingsAndSettingsParser scanning one timestamp
  tLine,             \* #line
  tPos,              \* #pos + 1
  tRet,              \* what the call made on it returned
  \* a call of #parseSettings
  sInput,            \* its input
  sSettings,         \* input.split(SPACE)
  sI,                \* the loop index i + 1
  sSt,               \* cue, seen, positionAlign and the diagnostics
  \* a WebVttCueTextParser inside parse(cueStart, cueEnd)
  xLine,             \* #line
  xMode,             \* mode
  xSt,               \* #pos + 1, the objects, current, timestamps, diagnostics
  xRet,              \* what parse returned
  \* a call of WebVttParser.parse(input, mode)
  input, mode,
  lines, linePos, alreadyCollected, cues, styles, errors,
  pstate,            \* "start", "loop" (in the CUE LOOP), "done", "threw"
  trace,             \* history: the iterations of the CUE LOOP so far
  \* a timing line parsed, the cue serialized, and the text parsed again
  rInput,            \* the timing line
  rCue,              \* what timings.parse(cue, 0) made of it
  rOut,              \* the timing line #serializeCue writes for the cue
  rBack,             \* what timings.parse(cue, 0) makes of that line
  rStage             \* "start", "parsed", "serialized", "reparsed"

tVars == <<tLine, tPos, tRet>>
sVars == <<sInput, sSettings, sI, sSt>>
xVars == <<xLine, xMode, xSt, xRet>>
pVars == <<input, mode, lines, linePos, alreadyCollected, cues, styles, errors, pstate, trace>>
rVars == <<rInput, rCue, rOut, rBack, rStage>>
vars == <<tVars, sVars, xVars, pVars, rVars>>

\* the components a specification does not exercise
tIdle == tLine = <<>> /\ tPos = 1 /\ tRet = [op |-> "none", r |-> TsFail("", 1)]
sIdle == sInput = <<>> /\ sSettings = <<>> /\ sI = 1 /\ sSt = SettingsStart(DefaultCue)
xIdle == xLine = <<>> /\ xMode = "metadata" /\ xSt = TextStart
           /\ xRet = [done |-> FALSE, tree |-> [children |-> <<>>]]
pIdle == /\ input = <<>> /\ mode = "metadata" /\ lines = <<>> /\ linePos = 1
         /\ alreadyCollected = FALSE /\ cues = <<>> /\ styles = <<>> /\ errors = <<>>
         /\ pstate = "start" /\ trace = <<>>
rIdle == /\ rInput = <<>> /\ rCue = DefaultCue /\ rOut = <<>>
         /\ rBack = TimingsFail(DefaultCue, <<>>) /\ rStage = "start"

Modes == {"metadata", "chapters"}

\* the sequences of at most n elements of set
SeqsUpTo(set, n) == UNION {[1..k -> set] : k \in 0..n}

\* the strings of ss joined by sep
RECURSIVE Join(_, _)
Join(ss, sep) ==
  IF ss = <<>> THEN <<>>
  ELSE IF Len(ss) = 1 THEN ss[1]
  ELSE ss[1] \o sep \o Join(Tail(ss), sep)

(***************************************************************************)
(* The timestamp scanner on its own                                        *)
(***************************************************************************)

\* the most zeros put before the first digits of a timestamp
MaxLeadingZeros == 2

RECURSIVE Zeros(_)
Zeros(n) == IF n <= 0 THEN <<>> ELSE <<"0">> \o Zeros(n - 1)

\* first runs of digits: none, one digit, two digits up to and over 59,
\* three digits, each behind some zeros
FirstRuns(n) == {Zeros(k) \o d : k \in 0..n, d \in {<<>>, <<"6">>, <<"5", "9">>, <<"6", "0">>, <<"1", "0", "0">>}}

TsInputs ==
  {v1 \o s1 \o v2 \o mid \o s3 \o v4 \o end :
     v1 \in FirstRuns(MaxLeadingZeros), s1 \in {<<":">>, <<".">>},
     v2 \in {<<"6">>, <<"0", "6">>, <<"6", "0">>, <<"0", "0", "6">>},
     mid \in {<<>>, <<":", "6">>, <<":", "0", "6">>, <<":", "5", "9">>, <<":", "6", "0">>, <<":", "0", "0", "6">>},
     s3 \in {<<".">>, <<":">>}, v4 \in {<<"0", "6">>, <<"0", "0", "6">>, <<"0", "0", "0", "6">>}, end \in {<<>>, <<" ">>}}

tInit == tLine \in TsInputs /\ tPos = 1 /\ tRet = [op |-> "none", r |-> TsFail("", 1)]

\* #timestamp() on a fresh parser
TsTimestamp ==
  /\ tRet.op = "none"
  /\ tRet' = [op |-> "timestamp", r |-> Timestamp(tLine, tPos)]
  /\ tPos' = tRet'.r.pos
  /\ UNCHANGED <<tLine, sVars, xVars, pVars, rVars>>

\* parseTimestamp() on a fresh parser
TsParseTimestamp ==
  /\ tRet.op = "none"
  /\ tRet' = [op |-> "parseTimestamp", r |-> ParseTimestamp(tLine)]
  /\ tPos' = tRet'.r.pos
  /\ UNCHANGED <<tLine, sVars, xVars, pVars, rVars>>

InitTs == tInit /\ sIdle /\ xIdle /\ pIdle /\ rIdle
NextTs == TsTimestamp \/ TsParseTimestamp
SpecTs == InitTs /\ [][NextTs]_vars


(***************************************************************************)
(* #parseSettings on its own, one iteration of its loop at a time          *)
(***************************************************************************)

\* the most settings tokens on a line
MaxSettings == 2

SettingTokens ==
  {<<"v", "e", "r", "t", "i", "c", "a", "l", ":", "r", "l">>, <<"v", "e", "r", "t", "i", "c", "a", "l", ":", "u", "p">>,
   <<"l", "i", "n", "e", ":", "5">>, <<"l", "i", "n", "e", ":", "-", "1">>, <<"l", "i", "n", "e", ":", "5", "0", "%">>, <<"l", "i", "n", "e", ":", "1", "0", "0", ".", "5", "%">>, <<"l", "i", "n", "e", ":", "1", "0", "1", "%">>, <<"l", "i", "n", "e", ":", "-", "5", "%">>,
   <<"l", "i", "n", "e", ":", "5", ",", "c", "e", "n", "t", "e", "r">>, <<"l", "i", "n", "e", ":", "6", ",", "t", "o", "p">>,
   <<"p", "o", "s", "i", "t", "i", "o", "n", ":", "5", "0", "%">>, <<"p", "o", "s", "i", "t", "i", "o", "n", ":", "-", "0", ".", "5", "%">>, <<"p", "o", "s", "i", "t", "i", "o", "n", ":", "1", "0", "0", ".", "5", "%">>, <<"p", "o", "s", "i", "t", "i", "o", "n", ":", "1", "0", "1", "%">>,
   <<"p", "o", "s", "i", "t", "i", "o", "n", ":", "5", "0", "%", ",", "c", "e", "n", "t", "e", "r">>, <<"p", "o", "s", "i", "t", "i", "o", "n", ":", "a", "b", "c", ",", "l", "i", "n", "e", "-", "l", "e", "f", "t">>, <<"p", "o", "s", "i", "t", "i", "o", "n", ":", "1", "e", "3", "%">>,
   <<"s", "i", "z", "e", ":", "5", "0", "%">>, <<"s", "i", "z", "e", ":", "1", "0", "0", ".", "5", "%">>, <<"s", "i", "z", "e", ":", "-", "0", ".", "5", "%">>, <<"s", "i", "z", "e", ":", "a", "b", "c", "%">>, <<"s", "i", "z", "e", ":", "0", "x", "1", "0", "%">>, <<"s", "i", "z", "e", ":">>,
   <<"a", "l", "i", "g", "n", ":", "s", "t", "a", "r", "t">>, <<"a", "l", "i", "g", "n", ":", "t", "o", "p">>, <<"r", "e", "g", "i", "o", "n", ":", "1">>}

SettingsInputs == {Join(ts, <<" ">>) : ts \in SeqsUpTo(SettingTokens, MaxSettings)}

sInit ==
  /\ sInput \in SettingsInputs
  /\ sSettings = Split(sInput, SPACE)
  /\ sI = 1
  /\ sSt = SettingsStart(DefaultCue)

\* #parseSettings has returned
sDone == sI > Len(sSettings) \/ sSt.returned

\* one iteration of the loop over settings
SettingsIteration ==
  /\ ~sDone
  /\ sSt' = SettingStep(sSt, sSettings[sI])
  /\ sI' = sI + 1
  /\ UNCHANGED <<sInput, sSettings, tVars, xVars, pVars, rVars>>

InitSet == sInit /\ tIdle /\ xIdle /\ pIdle /\ rIdle
NextSet == SettingsIteration
SpecSet == InitSet /\ [][NextSet]_vars

(***************************************************************************)
(* The cue-text parser on its own, one token at a time                     *)
(***************************************************************************)

\* the most pieces of markup and text in a payload
MaxPieces == 3

TextPieces ==
  {<<"<", "b", ">">>, <<"<", "/", "b", ">">>, <<"<", "r", "u", "b", "y", ">">>, <<"<", "/", "r", "u", "b", "y", ">">>, <<"<", "r", "t", ">">>, <<"<", "v", " ", "a", ">">>, <<"<", "/", "v", ">">>, <<"<", "x", ">">>, <<"t">>,
   <<"&", "a", "m", "p", ";">>, <<"&", "#", "6", "5", ";">>, <<"&", "#", "9", "9", "9", "9", "9", "9", "9", ";">>, <<"&", "f", "o", "o", ";">>, <<"<", "0", "0", ":", "0", "2", ".", "0", "0", "0", ">">>, <<"<", "0", "0", ":", "0", "4", ".", "0", "0", "0", ">">>, <<"<", "1", ">">>}

TextInputs == {Join(ps, <<>>) : ps \in SeqsUpTo(TextPieces, MaxPieces)}

\* the cue whose payload is parsed: 00:01.000 --> 00:03.000
xCue == [startTime |-> 1000, endTime |-> 3000]

xInit ==
  /\ xLine \in TextInputs
  /\ xMode \in Modes
  /\ xSt = TextStart
  /\ xRet = [done |-> FALSE, tree |-> [children |-> <<>>]]

\* one iteration of `while (this.#line[this.#pos] != null)`
TextToken ==
  /\ ~xRet.done /\ ~xSt.threw
  /\ CharAt(xLine, xSt.pos) # NoChar
  /\ xSt' = TextIter(xLine, xMode, xCue.startTime, xCue.endTime, xSt)
  /\ UNCHANGED <<xLine, xMode, xRet, tVars, sVars, pVars, rVars>>

\* the end of input: the walk up from current, and removeCycles(result)
TextReturn ==
  /\ ~xRet.done /\ ~xSt.threw
  /\ CharAt(xLine, xSt.pos) = NoChar
  /\ xSt' = [xSt EXCEPT !.errs = @ \o MissingEndTags(xSt.nodes, xSt.current, xMode),
                        !.current = Root]
  /\ xRet' = [done |-> TRUE, tree |-> removeCycles(xSt.nodes, Root)]
  /\ UNCHANGED <<xLine, xMode, tVars, sVars, pVars, rVars>>

InitText == xInit /\ tIdle /\ sIdle /\ pIdle /\ rIdle
NextText == TextToken \/ TextReturn
SpecText == InitText /\ [][NextText]_vars

(***************************************************************************)
(* The cue-text parser on payloads with one character reference            *)
(***************************************************************************)

\* the most digits of a numeric character reference
MaxRefDigits == 2

RefDigits == {"0", "1", "4", "9", "a", "F"}

\* the numeric references: &#D+; and &#xH+;
NumRefs ==
  {r \in [hex : BOOLEAN, digits : SeqsUpTo(RefDigits, MaxRefDigits) \ {<<>>}] :
     r.hex \/ \A k \in 1..Len(r.digits) : r.digits[k] \in Digit}

RefText(r) == <<"&", "#">> \o (IF r.hex THEN <<"x">> ELSE <<>>) \o r.digits \o <<";">>

\* the text around the reference
Around == {<<>>, <<"t">>}

EscapeInputs ==
  {pre \o ref \o post :
     pre \in Around, post \in Around, ref \in {RefText(r) : r \in NumRefs} \cup {<<"&", "f", "o", "o", ";">>}}

escInit ==
  /\ xLine \in EscapeInputs
  /\ xMode \in Modes
  /\ xSt = TextStart
  /\ xRet = [done |-> FALSE, tree |-> [children |-> <<>>]]

InitEscape == escInit /\ tIdle /\ sIdle /\ pIdle /\ rIdle
SpecEscape == InitEscape /\ [][NextText]_vars

(***************************************************************************)
(* The cue-text parser on payloads of start tags only                      *)
(***************************************************************************)

\* the most start tags of such a payload
MaxNesting == 9

NestingTags == {<<"<", "b", ">">>, <<"<", "i", ">">>}

NestingInputs == {Join(ts, <<>>) : ts \in SeqsUpTo(NestingTags, MaxNesting)}

nestInit ==
  /\ xLine \in NestingInputs
  /\ xMode \in Modes
  /\ xSt = TextStart
  /\ xRet = [done |-> FALSE, tree |-> [children |-> <<>>]]

InitNesting == nestInit /\ tIdle /\ sIdle /\ pIdle /\ rIdle
SpecNesting == InitNesting /\ [][NextText]_vars

(***************************************************************************)
(* WebVttParser.parse, one iteration of the CUE LOOP at a time             *)
(***************************************************************************)

\* the most lines after the signature line
MaxLines == 4

BodyLines ==
  {<<>>, <<"N", "O", "T", "E">>, <<"S", "T", "Y", "L", "E">>, <<"t">>, <<"&", "#", "9", "9", "9", "9", "9", "9", "9", ";">>,
   <<"0", "0", ":", "0", "1", ".", "0", "0", "0", " ", "-", "-", ">", " ", "0", "0", ":", "0", "2", ".", "0", "0", "0">>, <<"0", "0", ":", "0", "2", ".", "0", "0", "0", " ", "-", "-", ">", " ", "0", "0", ":", "0", "1", ".", "0", "0", "0">>, <<"0", "0", ":", "0", "1", ".", "0", "0", "0", " ", "-", "-", ">", " ", "0", "0", ":", "0", "1", ".", "0", "0", "0", " ", "l", "i", "n", "e", ":", "1", "0", "0", ".", "5", "%", " ", "p", "o", "s", "i", "t", "i", "o", "n", ":", "-", "0", ".", "5", "%">>,
   <<"0", "0", ":", "0", "1", ".", "0", "0", "0", " ", "-", ">", " ", "0", "0", ":", "0", "2", ".", "0", "0", "0", " ", "-", "-", ">">>}

ParseInputs == {Join(<<<<"W", "E", "B", "V", "T", "T">>>> \o ls, <<"\n">>) : ls \in SeqsUpTo(BodyLines, MaxLines)}
                 \cup {<<>>}

pInit ==
  /\ input \in ParseInputs
  /\ mode \in Modes
  /\ lines = <<>> /\ linePos = 1 /\ alreadyCollected = FALSE
  /\ cues = <<>> /\ styles = <<>> /\ errors = <<>>
  /\ pstate = "start" /\ trace = <<>>

\* parse(input, mode) up to the CUE LOOP: split, SIGNATURE, HEADER
ParseBegin ==
  /\ pstate = "start"
  /\ \E h \in {ParseHead(input)} :
        /\ lines' = h.lines
        /\ linePos' = h.linePos
        /\ alreadyCollected' = h.alreadyCollected
        /\ errors' = h.errors
  /\ pstate' = "loop"
  /\ UNCHANGED <<input, mode, cues, styles, trace, tVars, sVars, xVars, rVars>>

\* one iteration of the CUE LOOP
CueLoop ==
  /\ pstate = "loop"
  /\ ~LoopEnds(lines, linePos, alreadyCollected)
  /\ \E it \in {CueLoopIter(lines, linePos, alreadyCollected, cues, styles, mode)} :
        /\ linePos' = it.linePos
        /\ alreadyCollected' = it.alreadyCollected
        /\ cues' = it.cues
        /\ styles' = it.styles
        /\ errors' = errors \o it.errs
        /\ pstate' = IF it.threw THEN "threw" ELSE "loop"
        /\ trace' = Append(trace, [branch |-> it.branch, at |-> it.at,
                                   timing |-> it.timing, threw |-> it.threw])
  /\ UNCHANGED <<input, mode, lines, tVars, sVars, xVars, rVars>>

\* the end of the CUE LOOP: sort and return
ParseReturn ==
  /\ pstate = "loop"
  /\ LoopEnds(lines, linePos, alreadyCollected)
  /\ linePos' = SkipBlank(lines, linePos, alreadyCollected)
  /\ cues' = Sort(cues)
  /\ pstate' = "done"
  /\ UNCHANGED <<input, mode, lines, alreadyCollected, styles, errors, trace, tVars, sVars, xVars, rVars>>

InitParse == pInit /\ tIdle /\ sIdle /\ xIdle /\ rIdle
NextParse == ParseBegin \/ CueLoop \/ ParseReturn
SpecParse == InitParse /\ [][NextParse]_vars


(***************************************************************************)
(* A timing line parsed, serialized and parsed again                       *)
(***************************************************************************)

\* the most settings tokens on a timing line that is serialized
MaxRoundTripSettings == 2

\* start and end timestamps: below and from one hour on, hours of one, two
\* and three digits, an end before its start
RoundTripTimes ==
  {[s |-> <<"0", "0", ":", "0", "0", ".", "0", "0", "0">>, e |-> <<"0", "0", ":", "0", "0", ".", "0", "0", "1">>], [s |-> <<"0", "0", ":", "5", "9", ".", "9", "9", "9">>, e |-> <<"5", "9", ":", "5", "9", ".", "9", "9", "9">>],
   [s |-> <<"0", "0", ":", "5", "9", ":", "5", "9", ".", "9", "9", "9">>, e |-> <<"0", "1", ":", "0", "0", ":", "0", "0", ".", "0", "0", "0">>], [s |-> <<"1", ":", "0", "0", ":", "0", "1", ".", "0", "1", "0">>, e |-> <<"1", "0", "0", ":", "0", "1", ":", "0", "0", ".", "1", "0", "0">>],
   [s |-> <<"6", "0", ":", "0", "0", ":", "0", "0", ".", "0", "0", "0">>, e |-> <<"0", "0", ":", "0", "0", ".", "0", "0", "0">>]}

RoundTripTokens ==
  {<<"v", "e", "r", "t", "i", "c", "a", "l", ":", "l", "r">>, <<"v", "e", "r", "t", "i", "c", "a", "l", ":", "u", "p">>, <<"a", "l", "i", "g", "n", ":", "l", "e", "f", "t">>, <<"a", "l", "i", "g", "n", ":", "c", "e", "n", "t", "e", "r">>,
   <<"s", "i", "z", "e", ":", "5", "0", "%">>, <<"s", "i", "z", "e", ":", "1", "0", "0", "%">>, <<"s", "i", "z", "e", ":", "0", ".", "5", "%">>,
   <<"l", "i", "n", "e", ":", "5">>, <<"l", "i", "n", "e", ":", "-", "1">>, <<"l", "i", "n", "e", ":", "5", "0", "%", ",", "e", "n", "d">>, <<"l", "i", "n", "e", ":", "0", ".", "0", "0", "0", "0", "0", "0", "1">>, <<"l", "i", "n", "e", ":", "5", ",", "s", "t", "a", "r", "t">>,
   <<"p", "o", "s", "i", "t", "i", "o", "n", ":", "5", "0", "%">>, <<"p", "o", "s", "i", "t", "i", "o", "n", ":", "0", ".", "5", "%", ",", "l", "i", "n", "e", "-", "l", "e", "f", "t">>, <<"p", "o", "s", "i", "t", "i", "o", "n", ":", "a", "b", "c", ",", "l", "i", "n", "e", "-", "l", "e", "f", "t">>, <<"p", "o", "s", "i", "t", "i", "o", "n", ":", "1", "e", "3", "%">>}

RoundTripInputs ==
  {t.s \o <<" ", "-", "-", ">", " ">> \o t.e \o Join([k \in 1..Len(ts) |-> <<" ">> \o ts[k]], <<>>) :
     t \in RoundTripTimes, ts \in SeqsUpTo(RoundTripTokens, MaxRoundTripSettings)}

\* the cue parse() hands the timing parser
NewCue == [DefaultCue EXCEPT !.ord = 1, !.src = 1]

rInit ==
  /\ rInput \in RoundTripInputs
  /\ rCue = DefaultCue /\ rOut = <<>>
  /\ rBack = TimingsFail(DefaultCue, <<>>) /\ rStage = "start"

\* timings.parse(cue, 0) on the timing line: the cue parse() returns
RoundTripParse ==
  /\ rStage = "start"
  /\ \E r \in {TimingsParse(rInput, NewCue, 0)} :
        /\ r.ok
        /\ rCue' = r.cue
  /\ rStage' = "parsed"
  /\ UNCHANGED <<rInput, rOut, rBack, tVars, sVars, xVars, pVars>>

\* #serializeCue(cue): its timing line
RoundTripSerialize ==
  /\ rStage = "parsed"
  /\ rOut' = SerializeTimings(rCue)
  /\ rStage' = "serialized"
  /\ UNCHANGED <<rInput, rCue, rBack, tVars, sVars, xVars, pVars>>

\* timings.parse(cue, 0) on the serialized timing line
RoundTripReparse ==
  /\ rStage = "serialized"
  /\ rBack' = TimingsParse(rOut, NewCue, 0)
  /\ rStage' = "reparsed"
  /\ UNCHANGED <<rInput, rCue, rOut, tVars, sVars, xVars, pVars>>

InitRoundTrip == rInit /\ tIdle /\ sIdle /\ xIdle /\ pIdle
NextRoundTrip == RoundTripParse \/ RoundTripSerialize \/ RoundTripReparse
SpecRoundTrip == InitRoundTrip /\ [][NextRoundTrip]_vars

(***************************************************************************)
(* The WebVTT timestamp grammar, stated apart from the scanner             *)
(***************************************************************************)

AllDigits(line, p, n) == \A k \in p..(p + n - 1) : CharAt(line, k) \in Digit

Num2(line, p) == 10 * DigitVal(line[p]) + DigitVal(line[p + 1])
Num3(line, p) == 100 * DigitVal(line[p]) + 10 * DigitVal(line[p + 1]) + DigitVal(line[p + 2])

\* the number of digits the text at p starts with
LeadingDigits(line, p) ==
  CHOOSE n \in 0..Len(line) : AllDigits(line, p, n) /\ CharAt(line, p + n) \notin Digit

\* D+:DD:DD.DDD at p, the hours n digits long, minutes and seconds below 60
\* and no fourth digit of milliseconds
FormHMS(line, p, n) ==
  /\ n >= 1 /\ AllDigits(line, p, n)
  /\ CharAt(line, p + n) = ":" /\ AllDigits(line, p + n + 1, 2)
  /\ CharAt(line, p + n + 3) = ":" /\ AllDigits(line, p + n + 4, 2)
  /\ CharAt(line, p + n + 6) = "." /\ AllDigits(line, p + n + 7, 3)
  /\ CharAt(line, p + n + 10) \notin Digit
  /\ Num2(line, p + n + 1) <= 59 /\ Num2(line, p + n + 4) <= 59

\* DD:DD.DDD at p, minutes and seconds below 60
FormMS(line, p) ==
  /\ AllDigits(line, p, 2) /\ CharAt(line, p + 2) = ":" /\ AllDigits(line, p + 3, 2)
  /\ CharAt(line, p + 5) = "." /\ AllDigits(line, p + 6, 3)
  /\ CharAt(line, p + 9) \notin Digit
  /\ Num2(line, p) <= 59 /\ Num2(line, p + 3) <= 59

\* the timestamp the grammar reads at p: whether there is one, its
\* milliseconds, and the position after it
GrammarTs(line, p) ==
  LET n == LeadingDigits(line, p)
  IN IF FormHMS(line, p, n)
       THEN [ok |-> TRUE,
             val |-> DigitsVal(SubSeq(line, p, p + n - 1)) * 3600000
                       + Num2(line, p + n + 1) * 60000 + Num2(line, p + n + 4) * 1000
                       + Num3(line, p + n + 7),
             end |-> p + n + 10]
     ELSE IF FormMS(line, p)
       THEN [ok |-> TRUE,
             val |-> Num2(line, p) * 60000 + Num2(line, p + 3) * 1000 + Num3(line, p + 6),
             end |-> p + 9]
     ELSE [ok |-> FALSE, val |-> 0, end |-> p]

\* the first position from p on that holds no space, tab or form feed
AfterSpaces(line, p) ==
  CHOOSE q \in p..(Len(line) + 1) :
    CharAt(line, q) \notin SPACE /\ \A k \in p..(q - 1) : line[k] \in SPACE

\* a timing line: timestamp, `-->`, timestamp, with optional white space
GrammarTimings(line) ==
  LET a == GrammarTs(line, AfterSpaces(line, 1))
      sep == AfterSpaces(line, a.end)
      b == GrammarTs(line, AfterSpaces(line, sep + 3))
  IN IF a.ok /\ sep + 2 <= Len(line) /\ SubSeq(line, sep, sep + 2) = Arrow /\ b.ok
       THEN [ok |-> TRUE, startTime |-> a.val, endTime |-> b.val]
     ELSE [ok |-> FALSE, startTime |-> 0, endTime |-> 0]

(***************************************************************************)
(* Claims                                                                  *)
(***************************************************************************)

HasDiag(message, line) == \E k \in 1..Len(errors) : errors[k] = Diag(message, line)

\* C1: parse returns a result for every input and mode and never raises an
\* exception, whatever is malformed in the input.
C1_ParseNeverRaises == pstate # "threw"

\* the iterations that accepted a cue
CueEvents == {k \in 1..Len(trace) : trace[k].branch = "cue" /\ ~trace[k].threw}

\* C2: the cue list parse returns holds the accepted cues in ascending order
\* of (startTime, endTime), cues with equal startTime and endTime in the
\* order in which they were accepted.
C2_SortedStable ==
  pstate = "done" =>
    /\ Len(cues) = Cardinality(CueEvents)
    /\ {cues[i].ord : i \in 1..Len(cues)} = 1..Len(cues)
    /\ {cues[i].src : i \in 1..Len(cues)} = {trace[k].timing : k \in CueEvents}
    /\ \A i, j \in 1..Len(cues) :
         i < j =>
           \/ cues[i].startTime < cues[j].startTime
           \/ cues[i].startTime = cues[j].startTime /\ cues[i].endTime < cues[j].endTime
           \/ /\ cues[i].startTime = cues[j].startTime
              /\ cues[i].endTime = cues[j].endTime
              /\ cues[i].ord < cues[j].ord

\* three cues returned, the sort moved one, two have equal times
C2_Witness ==
  /\ pstate = "done" /\ Len(cues) = 3
  /\ \E i \in 1..3 : cues[i].ord # i
  /\ \E i, j \in 1..3 :
       i < j /\ cues[i].startTime = cues[j].startTime /\ cues[i].endTime = cues[j].endTime


\* the cues of the list that came from the timing line i
CuesFrom(i) == {j \in 1..Len(cues) : cues[j].src = i}

\* the startTime of the cue accepted last before line i, 0 when there is none
LastAcceptedStart(i) ==
  LET before == {j \in 1..Len(cues) : cues[j].src < i}
  IN IF before = {} THEN 0
     ELSE cues[CHOOSE j \in before : \A h \in before : cues[h].src <= cues[j].src].startTime

\* C3: a block's timing line, once its iteration of the cue loop is over,
\* has yielded a cue exactly when it is two well-formed timestamps around a
\* well-formed `-->`; the cue then keeps the parsed start
\* and end, 'End timestamp is not greater than start timestamp.' is reported
\* for the line iff end <= start, and the start-order diagnostic iff start is
\* below the startTime of the cue accepted last before it.
C3_TimingLineDecides ==
  \A k \in 1..Len(trace) :
      (trace[k].timing # 0 /\ ~trace[k].threw) =>
        LET i == trace[k].timing
            g == GrammarTimings(lines[i])
        IN /\ g.ok <=> CuesFrom(i) # {}
           /\ Cardinality(CuesFrom(i)) <= 1
           /\ \A j \in CuesFrom(i) :
                /\ cues[j].startTime = g.startTime
                /\ cues[j].endTime = g.endTime
                /\ HasDiag("End timestamp is not greater than start timestamp.", i)
                     <=> g.endTime <= g.startTime
                /\ HasDiag("Start timestamp is not greater than or equal to start timestamp of previous cue.", i)
                     <=> g.startTime < LastAcceptedStart(i)

\* a returned list with a cue that starts before the cue accepted before it
\* and does not end after its own start, next to a dropped timing line
C3_Witness ==
  /\ pstate = "done"
  /\ \E j \in 1..Len(cues) :
       /\ cues[j].ord > 1
       /\ cues[j].startTime < LastAcceptedStart(cues[j].src)
       /\ cues[j].endTime <= cues[j].startTime
  /\ \E k \in 1..Len(trace) : trace[k].branch = "bad cue"

\* the iterations that read a STYLE block
StyleEvents == {k \in 1..Len(trace) : trace[k].branch = "style"}

\* the lines of the block that the iteration k read, after its first line
BlockLines(k) ==
  {i \in (trace[k].at + 1)..Len(lines) : \A j \in (trace[k].at + 1)..i : lines[j] # <<>>}

BlockText(k) ==
  JoinLines(lines, trace[k].at + 1, trace[k].at + 1 + Cardinality(BlockLines(k)))

CueBefore(k) == \E j \in CueEvents : j < k

\* the STYLE blocks without `-->` that no accepted cue precedes
CleanEarlyStyles ==
  {k \in StyleEvents : ~CueBefore(k) /\ \A i \in BlockLines(k) : ~HasArrow(lines[i])}

\* C4: the styles list holds, in order, exactly the STYLE blocks that have no
\* line with `-->` and that no accepted cue precedes; every STYLE block after
\* an accepted cue is reported with 'Style blocks cannot appear after the
\* first cue.'
C4_StylesBeforeCues ==
  /\ Len(styles) = Cardinality(CleanEarlyStyles)
  /\ \A k \in CleanEarlyStyles :
       styles[Cardinality({j \in CleanEarlyStyles : j <= k})] = BlockText(k)
  /\ \A k \in StyleEvents :
       CueBefore(k) =>
         HasDiag("Style blocks cannot appear after the first cue.",
                 trace[k].at + 1 + Cardinality(BlockLines(k)))

\* a STYLE block without `-->` read after an accepted cue, and left out
C4_Witness ==
  /\ pstate = "done"
  /\ \E k \in StyleEvents : CueBefore(k) /\ \A i \in BlockLines(k) : ~HasArrow(lines[i])
  /\ styles = <<>>


\* C5: the timestamp scanner accepts the text at its cursor exactly when it
\* is D+:DD:DD.DDD or DD:DD.DDD with minutes and seconds of two digits up to
\* 59 and three digits of milliseconds; it then returns
\* h*3600000 + m*60000 + s*1000 + ms and leaves the cursor behind the
\* timestamp.
C5_TimestampGrammar ==
  tRet.op = "timestamp" =>
    LET g == GrammarTs(tLine, 1)
    IN /\ tRet.r.ok <=> g.ok
       /\ g.ok => tRet.r.val = g.val /\ tRet.r.pos = g.end

\* a first component of two digits over 59, read as hours because a third
\* component follows
C5_Witness ==
  /\ tRet.op = "timestamp" /\ tRet.r.ok
  /\ SubSeq(tLine, 1, 3) = <<"6", "0", ":">>
  /\ tRet.r.val >= 60 * 3600000

\* the tokens of the settings line that did not fail validation
KeptTokens ==
  LET F[k \in 0..Len(sSettings)] ==
        IF k = 0 THEN <<>>
        ELSE IF sSt.failed[k] THEN F[k - 1] ELSE Append(F[k - 1], sSettings[k])
  IN F[Len(sSettings)]

\* C6: on a settings line without an empty value, the cue after
\* #parseSettings is the cue that the line without its failing tokens gives.
C6_FailedTokenChangesNothing ==
  (sDone /\ ~sSt.returned) =>
    sSt.cue = ParseSettings(Join(KeptTokens, <<" ">>), DefaultCue).cue

\* a number from 0 to 100
Percentage(x) == x.kind = "num" /\ ~NumLT(x, 0) /\ ~NumGT(x, 100)

\* C7: every cue parse returns has a size from 0 to 100 and, when its
\* snapToLines is false, a linePosition from 0 to 100.
C7_SizeAndLineInRange ==
  pstate = "done" =>
    \A j \in 1..Len(cues) :
      /\ Percentage(cues[j].size)
      /\ ~cues[j].snapToLines => Percentage(cues[j].linePosition)

\* C8: every cue parse returns has textPosition 'auto' or a number from 0 to
\* 100.
C8_TextPositionInRange ==
  pstate = "done" =>
    \A j \in 1..Len(cues) :
      cues[j].textPosition = Auto \/ Percentage(cues[j].textPosition)

\* no object of the tree has a property `parent`
RECURSIVE NoParent(_)
NoParent(node) ==
  /\ "parent" \notin DOMAIN node
  /\ "children" \in DOMAIN node =>
       \A k \in 1..Len(node.children) : NoParent(node.children[k])

\* C9: no node of the tree the cue-text parser returns, at any depth, has a
\* `parent` property.
C9_NoParentInTree == xRet.done => NoParent(xRet.tree)

\* a returned tree with a text node inside an element
C9_Witness ==
  /\ xRet.done
  /\ \E k \in 1..Len(xRet.tree.children) :
       LET el == xRet.tree.children[k]
       IN /\ el.type = "object"
          /\ \E h \in 1..Len(el.children) : el.children[h].type = "text"

\* every rt element at or below node is a child of a ruby element, node
\* being a child of an object named parentName
RECURSIVE RtUnderRuby(_, _)
RtUnderRuby(node, parentName) ==
  LET name == IF "name" \in DOMAIN node THEN node.name ELSE Undefined
  IN /\ name = <<"r", "t">> => parentName = <<"r", "u", "b", "y">>
     /\ "children" \in DOMAIN node =>
          \A k \in 1..Len(node.children) : RtUnderRuby(node.children[k], name)

\* the token loop is at an rt start tag while current is not a ruby element
RtOutsideRuby ==
  /\ ~xRet.done /\ ~xSt.threw /\ CharAt(xLine, xSt.pos) # NoChar
  /\ LET token == NextToken(xLine, xMode, xSt.pos)
     IN ~token.threw /\ token.type = "start tag" /\ token.name = <<"r", "t">>
  /\ xSt.nodes[xSt.current].name # <<"r", "u", "b", "y">>

\* C10: in a returned tree every rt element is a child of a ruby element,
\* and an rt start tag met while current is not ruby adds no node, leaves
\* current as it is and, outside metadata mode, reports 'Incorrect start
\* tag.'
C10_RtOnlyUnderRuby ==
  /\ [](xRet.done => RtUnderRuby(xRet.tree, Undefined))
  /\ [][RtOutsideRuby =>
          /\ xSt'.nodes = xSt.nodes
          /\ xSt'.current = xSt.current
          /\ xMode # "metadata" =>
               /\ Len(xSt'.errs) > Len(xSt.errs)
               /\ xSt'.errs[Len(xSt'.errs)] = "Incorrect start tag."]_vars

\* a returned tree with an rt inside a ruby, from a payload that began with
\* an rt start tag, which was reported
C10_Witness ==
  /\ xRet.done
  /\ Len(xLine) >= 4 /\ SubSeq(xLine, 1, 4) = <<"<", "r", "t", ">">>
  /\ \E k \in 1..Len(xSt.errs) : xSt.errs[k] = "Incorrect start tag."
  /\ \E k \in 1..Len(xRet.tree.children) :
       LET el == xRet.tree.children[k]
       IN /\ el.type = "object" /\ el.name = <<"r", "u", "b", "y">>
          /\ \E h \in 1..Len(el.children) :
               el.children[h].type = "object" /\ el.children[h].name = <<"r", "t">>

\* how often msg is among the diagnostics errs
Count(errs, msg) == Cardinality({k \in 1..Len(errs) : errs[k] = msg})

\* the number of v elements at or below node that have a v element among
\* their ancestors, underV telling whether node itself has one
RECURSIVE NestedV(_, _)
NestedV(node, underV) ==
  LET isV == "name" \in DOMAIN node /\ node.name = <<"v">>
      below[k \in 0..(IF "children" \in DOMAIN node THEN Len(node.children) ELSE 0)] ==
        IF k = 0 THEN 0 ELSE below[k - 1] + NestedV(node.children[k], underV \/ isV)
  IN (IF isV /\ underV THEN 1 ELSE 0)
       + below[IF "children" \in DOMAIN node THEN Len(node.children) ELSE 0]

\* the token loop is at a v start tag while a v element is open
VInsideV ==
  /\ ~xRet.done /\ ~xSt.threw /\ CharAt(xLine, xSt.pos) # NoChar
  /\ LET token == NextToken(xLine, xMode, xSt.pos)
     IN ~token.threw /\ token.type = "start tag" /\ token.name = <<"v">>
  /\ inScope(xSt, <<"v">>)

\* C11 as stated: in a returned tree no v element has a v element among its
\* ancestors.
C11_NoNestedV == xRet.done => NestedV(xRet.tree, FALSE) = 0

\* C11 as amended: a v start tag met while a v element is open is attached
\* below current all the same and becomes current; outside metadata mode the
\* returned tree has as many v elements under a v element as there are
\* '<v> cannot be nested inside itself.' diagnostics, in metadata mode there
\* are no such diagnostics.
C11_NestedVDiagnosed ==
  /\ [](xRet.done =>
          Count(xSt.errs, "<v> cannot be nested inside itself.")
            = IF xMode = "metadata" THEN 0 ELSE NestedV(xRet.tree, FALSE))
  /\ [][VInsideV =>
          /\ Len(xSt'.nodes) = Len(xSt.nodes) + 1
          /\ xSt'.current = Len(xSt'.nodes)
          /\ xSt'.nodes[xSt'.current].name = <<"v">>
          /\ xSt'.nodes[xSt'.current].parent = xSt.current]_vars

\* a returned tree with a v element inside a b element inside a v element,
\* reported once
C11_Witness ==
  /\ xRet.done /\ xMode = "chapters"
  /\ xLine = <<"<", "v", " ", "a", ">", "<", "b", ">", "<", "v", " ", "a", ">">>
  /\ NestedV(xRet.tree, FALSE) = 1
  /\ Count(xSt.errs, "<v> cannot be nested inside itself.") = 1

\* C12: in metadata mode the cue-text parser gives its error handler no
\* diagnostic at any point of a parse, those of the timing parser it runs on
\* a timestamp tag included.
C12_MetadataSilent == xMode = "metadata" => xSt.errs = <<>>

\* a metadata-mode parse that returned a tree without a diagnostic for a
\* payload that in chapters mode is reported for its escape, its start tag
\* and its timestamp tag, the last one by the timing parser too
C12_Witness ==
  /\ xMode = "metadata" /\ xRet.done /\ xSt.errs = <<>>
  /\ xRet.tree.children # <<>>
  /\ \E r \in {CueTextParse(xLine, "chapters", xCue.startTime, xCue.endTime)} :
       /\ ~r.threw
       /\ Count(r.errs, "Incorrect escape.") > 0
       /\ Count(r.errs, "Incorrect start tag.") > 0
       /\ Count(r.errs, "Timestamp not allowed in chapter title text.") > 0
       /\ Count(r.errs, "No time unit separator found.") > 0

\* the payloads of one unterminated start tag and the text t, with the tag's
\* name
Unterminated == {[line |-> <<"<", "b", ">", "t">>, name |-> <<"b">>], [line |-> <<"<", "r", "u", "b", "y", ">", "t">>, name |-> <<"r", "u", "b", "y">>]}

\* the tree of such a payload: the element under the root, the text under
\* the element
ElementWithText(name) ==
  [children |->
     <<[type |-> "object", name |-> name, classes |-> <<>>,
        children |-> <<[type |-> "text", value |-> <<"t">>]>>]>>]

\* the elements open in st: current and its ancestors, less the root
OpenElements(st) ==
  LET up[k \in 0..Len(st.nodes)] ==
        IF k = 0 THEN st.current
        ELSE IF st.nodes[up[k - 1]].parent = 0 THEN up[k - 1]
        ELSE st.nodes[up[k - 1]].parent
  IN {up[k] : k \in 0..Len(st.nodes)} \ {Root}

OpenNonV(st) == {n \in OpenElements(st) : st.nodes[n].name # <<"v">>}

\* C13 as stated: a payload of one unterminated start tag and text gives, in
\* either mode, 'Required end tag missing.' as its one diagnostic and the
\* element with the text under the root.
C13_OneMissingEndTag ==
  xRet.done =>
    \A u \in Unterminated :
      xLine = u.line =>
        /\ xSt.errs = <<"Required end tag missing.">>
        /\ xRet.tree = ElementWithText(u.name)

\* C13 as amended: such a payload gives the element with the text under the
\* root in either mode, no diagnostic in metadata mode and in chapters mode
\* 'Start tags not allowed in chapter title text.' and then 'Required end
\* tag missing.'; the end of any parse reports 'Required end tag missing.'
\* once for each open element whose name is not v in chapters mode, and
\* never in metadata mode.
C13_MissingEndTags ==
  /\ [](xRet.done =>
          \A u \in Unterminated :
            xLine = u.line =>
              /\ xRet.tree = ElementWithText(u.name)
              /\ xSt.errs = IF xMode = "metadata" THEN <<>>
                            ELSE <<"Start tags not allowed in chapter title text.",
                                   "Required end tag missing.">>)
  /\ [][(~xRet.done /\ xRet'.done) =>
          /\ Count(xSt.errs, "Required end tag missing.") = 0
          /\ Count(xSt'.errs, "Required end tag missing.")
               = IF xMode = "metadata" THEN 0 ELSE Cardinality(OpenNonV(xSt))]_vars

\* a chapters-mode parse of <b>t that returned, with its two diagnostics
C13_Witness ==
  /\ xRet.done /\ xMode = "chapters"
  /\ xLine = <<"<", "b", ">", "t">>
  /\ Len(xSt.errs) = 2
  /\ xRet.tree = ElementWithText(<<"b">>)

\* the value of a hexadecimal digit
HexDigitVal(c) ==
  CASE c \in Digit -> DigitVal(c)
    [] c \in {"a", "A"} -> 10 [] c \in {"b", "B"} -> 11 [] c \in {"c", "C"} -> 12
    [] c \in {"d", "D"} -> 13 [] c \in {"e", "E"} -> 14 [] c \in {"f", "F"} -> 15

\* the code point a numeric reference names
RECURSIVE RefValue(_, _)
RefValue(digits, base) ==
  IF digits = <<>> THEN 0
  ELSE base * RefValue(SubSeq(digits, 1, Len(digits) - 1), base)
         + HexDigitVal(digits[Len(digits)])

\* the tree of a payload that is text only
TextOnly(value) == [children |-> <<[type |-> "text", value |-> value]>>]

\* C14: a payload of text around one terminated numeric reference is
\* returned as one text node with the character of that code point (base 10
\* for &#D+;, base 16 for &#xH+;) in the place of the reference, without a
\* diagnostic; around &foo; it is returned literally and, outside metadata
\* mode, with one 'Incorrect escape.'
C14_NumericReferences ==
  xRet.done =>
    \A pre \in Around, post \in Around :
      /\ \A r \in NumRefs :
           xLine = pre \o RefText(r) \o post =>
             /\ xRet.tree
                  = TextOnly(pre \o <<CodePointChar(RefValue(r.digits, IF r.hex THEN 16 ELSE 10))>>
                               \o post)
             /\ xSt.errs = <<>>
      /\ xLine = pre \o <<"&", "f", "o", "o", ";">> \o post =>
           /\ xRet.tree = TextOnly(pre \o <<"&", "f", "o", "o", ";">> \o post)
           /\ xMode # "metadata" => xSt.errs = <<"Incorrect escape.">>

\* C14, the part that holds: decimal references, hexadecimal references
\* written with the digits 0-9 only, and &foo;
C14_DecimalDigitsOnly ==
  xRet.done =>
    \A pre \in Around, post \in Around :
      /\ \A r \in NumRefs :
           (xLine = pre \o RefText(r) \o post /\ \A k \in 1..Len(r.digits) : r.digits[k] \in Digit) =>
             /\ xRet.tree
                  = TextOnly(pre \o <<CodePointChar(RefValue(r.digits, IF r.hex THEN 16 ELSE 10))>>
                               \o post)
             /\ xSt.errs = <<>>
      /\ xLine = pre \o <<"&", "f", "o", "o", ";">> \o post =>
           /\ xRet.tree = TextOnly(pre \o <<"&", "f", "o", "o", ";">> \o post)
           /\ xMode # "metadata" => xSt.errs = <<"Incorrect escape.">>

\* the two timestamps of a serialized timing line: the text before ' --> '
\* and the text after it up to the next space
StartText(out) == Take(out, IndexOf(out, <<" ", "-", "-", ">", " ">>) - 1)
EndText(out) ==
  LET from == IndexOf(out, <<" ", "-", "-", ">", " ">>) + 5
  IN SubSeq(out, from, RunEnd(out, from, {c \in {out[i] : i \in 1..Len(out)} : c # " "}) - 1)

\* text is the timestamp of t as the serializer is to write it: of the
\* grammar and nothing more, worth t, with hours exactly from one hour on
\* and then without a leading zero
WritesTime(text, t) ==
  /\ GrammarTs(text, 1) = [ok |-> TRUE, val |-> t, end |-> Len(text) + 1]
  /\ Cardinality({k \in 1..Len(text) : text[k] = ":"}) = IF t >= 3600000 THEN 2 ELSE 1
  /\ t >= 3600000 => text[1] # "0"

\* C15: the serializer writes each time of a cue as a timestamp of the
\* grammar with the hours unpadded and only from one hour on, and the timing
\* parser reads the written line back to the same startTime and endTime.
C15_TimestampRoundTrip ==
  /\ rStage \in {"serialized", "reparsed"} =>
       /\ WritesTime(StartText(rOut), rCue.startTime)
       /\ WritesTime(EndText(rOut), rCue.endTime)
  /\ rStage = "reparsed" =>
       /\ rBack.ok
       /\ rBack.cue.startTime = rCue.startTime
       /\ rBack.cue.endTime = rCue.endTime

\* a cue from 1:00:01.010 to 100:01:00.100 with settings, written and read
\* back
C15_Witness ==
  /\ rStage = "reparsed"
  /\ rCue.startTime = 3601010 /\ rCue.endTime = 360060100
  /\ StartText(rOut) = <<"1", ":", "0", "0", ":", "0", "1", ".", "0", "1", "0">>
  /\ rBack.cue.startTime = 3601010
  /\ rCue.direction = <<"l", "r">>

\* the settings of a serialized timing line: its tokens after the end
\* timestamp, and the names before their colons
WrittenTokens(out) ==
  LET from == IndexOf(out, <<" ", "-", "-", ">", " ">>) + 5 + Len(EndText(out))
      toks == Split(Drop(out, from), {" "})
  IN {toks[k] : k \in 1..Len(toks)} \ {<<>>}

WrittenNames(out) == {Take(tok, IndexOf(tok, <<":">>) - 1) : tok \in WrittenTokens(out)}

\* a === b for two numbers or 'auto'
SameNumber(a, b) == ~StrictNotEqual(a, b)

\* the diagnostic of the timing parser that a round trip can repeat
EndMsg == "End timestamp is not greater than start timestamp."

\* C16: the serialized timing line of a parsed cue has a settings token
\* exactly for the settings that differ from the defaults, never with the
\* value auto, and is read back without a settings diagnostic to the same
\* direction, alignment, size, snapToLines, linePosition, lineAlign,
\* textPosition and positionAlign.
C16_SettingsRoundTrip ==
  /\ rStage \in {"serialized", "reparsed"} =>
       /\ <<"v", "e", "r", "t", "i", "c", "a", "l">> \in WrittenNames(rOut) <=> rCue.direction # <<"h", "o", "r", "i", "z", "o", "n", "t", "a", "l">>
       /\ <<"a", "l", "i", "g", "n">> \in WrittenNames(rOut) <=> rCue.alignment # <<"c", "e", "n", "t", "e", "r">>
       /\ <<"s", "i", "z", "e">> \in WrittenNames(rOut) <=> ~SameNumber(rCue.size, IntNum(100))
       /\ <<"l", "i", "n", "e">> \in WrittenNames(rOut)
            <=> (rCue.lineAlign # <<"s", "t", "a", "r", "t">> \/ rCue.linePosition # Auto)
       /\ <<"p", "o", "s", "i", "t", "i", "o", "n">> \in WrittenNames(rOut)
            <=> (rCue.textPosition # Auto \/ rCue.positionAlign # <<"a", "u", "t", "o">>)
       /\ WrittenNames(rOut) \subseteq {<<"v", "e", "r", "t", "i", "c", "a", "l">>, <<"a", "l", "i", "g", "n">>, <<"s", "i", "z", "e">>, <<"l", "i", "n", "e">>, <<"p", "o", "s", "i", "t", "i", "o", "n">>}
       /\ IndexOf(rOut, <<"l", "i", "n", "e", ":", "a", "u", "t", "o">>) = 0 /\ IndexOf(rOut, <<"p", "o", "s", "i", "t", "i", "o", "n", ":", "a", "u", "t", "o">>) = 0
  /\ rStage = "reparsed" =>
       /\ \A k \in 1..Len(rBack.errs) : rBack.errs[k] = EndMsg
       /\ rBack.cue.direction = rCue.direction
       /\ rBack.cue.alignment = rCue.alignment
       /\ SameNumber(rBack.cue.size, rCue.size)
       /\ rBack.cue.snapToLines = rCue.snapToLines
       /\ SameNumber(rBack.cue.linePosition, rCue.linePosition)
       /\ rBack.cue.lineAlign = rCue.lineAlign
       /\ SameNumber(rBack.cue.textPosition, rCue.textPosition)
       /\ rBack.cue.positionAlign = rCue.positionAlign

\* C16 for the cues whose numbers the serializer writes in a form the
\* settings parser takes: no linePosition below 10^-6, no textPosition
\* outside 0..100
C16_PlainNumbers ==
  (/\ rCue.textPosition # Auto => Percentage(rCue.textPosition)
   /\ rCue.linePosition # Auto => IndexOf(NumToStr(rCue.linePosition), <<"e">>) = 0)
    => C16_SettingsRoundTrip

\* the tag names the tree builder attaches
TagNames == {<<"c">>, <<"i">>, <<"b">>, <<"u">>, <<"r", "u", "b", "y">>, <<"r", "t">>, <<"v">>, <<"l", "a", "n", "g">>}

\* the most elements on a path from node down, node included
RECURSIVE Depth(_)
Depth(node) ==
  LET n == IF "children" \in DOMAIN node THEN Len(node.children) ELSE 0
      deepest[k \in 0..n] ==
        IF k = 0 THEN 0
        ELSE IF Depth(node.children[k]) > deepest[k - 1] THEN Depth(node.children[k])
        ELSE deepest[k - 1]
  IN (IF "name" \in DOMAIN node THEN 1 ELSE 0) + deepest[n]

\* C17: at no point of a parse are more elements open than there are tag
\* names (8), and no returned tree is deeper than that.
C17_DepthBounded ==
  /\ Cardinality(OpenElements(xSt)) <= Cardinality(TagNames)
  /\ xRet.done => Depth(xRet.tree) <= Cardinality(TagNames)

\* the first line after line i that is blank, missing or holds `-->`
NextBreak(i) ==
  CHOOSE j \in (i + 1)..(Len(lines) + 1) :
    /\ ~InBlock(lines, j) \/ HasArrow(lines[j])
    /\ \A h \in (i + 1)..(j - 1) : InBlock(lines, h) /\ ~HasArrow(lines[h])

\* the iterations that gave the timing parser a line it rejects
Rejected ==
  {k \in 1..Len(trace) : trace[k].timing # 0 /\ ~GrammarTimings(lines[trace[k].timing]).ok}

\* C18: an iteration whose timing line is rejected adds no cue and leaves
\* the cursor on the first following line that is blank, missing or holds
\* `-->`; a line with `-->` found there is the timing line of the next
\* iteration, without a cue identifier, and gives its cue if it is
\* well-formed.
C18_TimingFailureResync ==
  \A k \in Rejected :
    LET i == trace[k].timing
        j == NextBreak(i)
        arrow == InBlock(lines, j) /\ HasArrow(lines[j])
    IN /\ CuesFrom(i) = {}
       /\ (k = Len(trace) /\ pstate = "loop") =>
            linePos = j /\ alreadyCollected = arrow
       /\ (k = Len(trace) /\ pstate = "done") => ~arrow
       /\ (k < Len(trace) /\ arrow) =>
            /\ trace[k + 1].timing = j /\ trace[k + 1].at = j
            /\ (GrammarTimings(lines[j]).ok /\ ~trace[k + 1].threw) =>
                 \E c \in CuesFrom(j) : cues[c].id = <<>>
       /\ (k < Len(trace) /\ ~arrow) => trace[k + 1].at > j

\* a rejected timing line, a line of text, and then a well-formed timing
\* line that gave a cue
C18_Witness ==
  /\ pstate = "done"
  /\ \E k \in Rejected :
       /\ NextBreak(trace[k].timing) = trace[k].timing + 2
       /\ k < Len(trace)
       /\ trace[k + 1].timing = trace[k].timing + 2
       /\ CuesFrom(trace[k].timing + 2) # {}

\* the iterations that gave the timing parser a line it accepts, and ended
Accepted ==
  {k \in 1..Len(trace) :
     trace[k].timing # 0 /\ ~trace[k].threw /\ GrammarTimings(lines[trace[k].timing]).ok}

BlankMissingMsg == "Blank line missing before cue."

\* C19: a cue's text is the lines after its timing line up to the first
\* line that is blank, missing or holds `-->`, joined by newlines; when that
\* line holds `-->`, 'Blank line missing before cue.' is reported for it and
\* it is the timing line of the next iteration; no cue's text holds `-->`.
C19_BlankLineMissing ==
  /\ \A k \in Accepted :
       LET i == trace[k].timing
           j == NextBreak(i)
           arrow == InBlock(lines, j) /\ HasArrow(lines[j])
       IN /\ \E c \in CuesFrom(i) : cues[c].text = Join(SubSeq(lines, i + 1, j - 1), <<"\n">>)
          /\ arrow <=> HasDiag(BlankMissingMsg, j)
          /\ (arrow /\ k = Len(trace)) =>
               pstate = "loop" /\ linePos = j /\ alreadyCollected
          /\ (arrow /\ k < Len(trace)) =>
               trace[k + 1].timing = j /\ trace[k + 1].at = j
  /\ \A c \in 1..Len(cues) : ~HasArrow(cues[c].text)

\* a returned cue with one line of text that ran into the timing line of
\* the next cue, which is returned too
C19_Witness ==
  /\ pstate = "done"
  /\ \E k \in Accepted :
       LET i == trace[k].timing
       IN /\ NextBreak(i) = i + 2 /\ HasArrow(LineAt(lines, i + 2))
          /\ HasDiag(BlankMissingMsg, i + 2)
          /\ \E c \in CuesFrom(i) : cues[c].text = <<"t">>
          /\ CuesFrom(i + 2) # {}

\* the iterations that found a cue identifier followed by a line that is
\* not blank and holds no `-->`
NoTimestamp == {k \in 1..Len(trace) : trace[k].branch = "no timestamp"}

\* the first line after line i that is blank or missing
BlockStop(i) ==
  CHOOSE j \in (i + 1)..(Len(lines) + 1) :
    ~InBlock(lines, j) /\ \A h \in (i + 1)..(j - 1) : InBlock(lines, h)

NoTimestampMsg == "Cue identifier needs to be followed by timestamp."

\* C20: a cue identifier followed by a line without `-->` is reported with
\* 'Cue identifier needs to be followed by timestamp.', and no line of its
\* block, up to the next blank line, is later a cue identifier or a timing
\* line, gives a cue or has another diagnostic.
C20_BlockDiscarded ==
  \A k \in NoTimestamp :
    LET p0 == trace[k].at
        block == (p0 + 1)..(BlockStop(p0) - 1)
    IN /\ HasDiag(NoTimestampMsg, p0 + 1)
       /\ \A h \in (k + 1)..Len(trace) :
            trace[h].at \notin block /\ trace[h].timing \notin block
       /\ \A c \in 1..Len(cues) : cues[c].src \notin block
       /\ \A e \in 1..Len(errors) :
            errors[e].line \in block => errors[e] = Diag(NoTimestampMsg, p0 + 1)

\* the lines after the signature line that hold `-->`
ArrowLines == {l \in 2..Len(lines) : HasArrow(lines[l])}

\* line l lies in a NOTE or STYLE block: below a line the CUE LOOP took as
\* the first line of such a block, with no blank line between the two
InNoteOrStyle(l) ==
  \E k \in 1..Len(trace) :
     /\ trace[k].branch \in {"note", "style"}
     /\ trace[k].at < l
     /\ \A m \in trace[k].at..l : InBlock(lines, m)

\* the iterations that gave line l to the timing parser
HandedOver(l) == {k \in 1..Len(trace) : trace[k].timing = l}

\* the diagnostics raised at line l
ErrorsAt(l) == {e \in 1..Len(errors) : errors[e].line = l}

ArrowInBlockMsgs ==
  {"Cannot have timestamp in a comment.", "Cannot have timestamp in a style block."}

\* C21: when parse has returned, every line after the signature line that
\* holds `-->` is accounted for: inside a NOTE or STYLE block it has a
\* diagnostic of its own, was never given to the timing parser and made no
\* cue; anywhere else it was given to the timing parser exactly once and
\* made exactly one cue or has at least one diagnostic.  Every returned cue
\* comes from such a line, so there are no more cues than `-->` lines
\* outside NOTE and STYLE blocks.
C21_ArrowLinesAccounted ==
  pstate = "done" =>
    /\ \A l \in ArrowLines :
         IF InNoteOrStyle(l)
           THEN /\ \E e \in ErrorsAt(l) : errors[e].message \in ArrowInBlockMsgs
                /\ HandedOver(l) = {}
                /\ CuesFrom(l) = {}
         ELSE /\ Cardinality(HandedOver(l)) = 1
              /\ Cardinality(CuesFrom(l)) <= 1
              /\ (CuesFrom(l) = {} => ErrorsAt(l) # {})
    /\ \A c \in 1..Len(cues) : cues[c].src \in ArrowLines /\ ~InNoteOrStyle(cues[c].src)
    /\ Len(cues) <= Cardinality({l \in ArrowLines : ~InNoteOrStyle(l)})

\* parse has returned from an input with a `-->` line inside a NOTE or
\* STYLE block and one outside that the timing parser rejected
C21_Witness ==
  /\ pstate = "done"
  /\ \E l \in ArrowLines : InNoteOrStyle(l)
  /\ \E l \in ArrowLines : ~InNoteOrStyle(l) /\ HandedOver(l) # {} /\ CuesFrom(l) = {}

(***************************************************************************)
(* Termination: parse(), or the cue-text parser on its own, run to the end *)
(***************************************************************************)

\* no call has been made yet
InitTermination == pIdle /\ xIdle /\ tIdle /\ sIdle /\ rIdle

\* parse(input, mode) is called
CallParse ==
  /\ pIdle /\ xIdle
  /\ input' \in ParseInputs /\ mode' \in Modes
  /\ UNCHANGED <<lines, linePos, alreadyCollected, cues, styles, errors, pstate, trace,
                 tVars, sVars, xVars, rVars>>

\* new WebVttCueTextParser(line, ..., mode, ...).parse(cueStart, cueEnd) is called
CallText ==
  /\ pIdle /\ xIdle
  /\ xLine' \in TextInputs /\ xMode' \in Modes
  /\ UNCHANGED <<xSt, xRet, tVars, sVars, pVars, rVars>>

\* one call runs at a time: the code is synchronous and single-threaded
NextTermination ==
  CallParse \/ CallText \/ (xIdle /\ NextParse) \/ (pIdle /\ NextText)

\* a call has ended: parse() returned or raised, or the cue-text parser did
Ended == pstate \in {"done", "threw"} \/ xRet.done \/ xSt.threw

\* The code is synchronous: nothing suspends a call, so it keeps taking
\* steps until it has ended.  Every state that is not Ended has a step of
\* NextTermination (a call to make, or the next step of the call made: the
\* guards of CueLoop and ParseReturn, and of TextToken and TextReturn, are
\* complementary), so this is weak fairness of NextTermination, written
\* without its enabling condition.
Progress == []<>Ended \/ []<><<TRUE>>_vars

SpecTermination == InitTermination /\ [][NextTermination]_vars /\ Progress

\* a step that is an iteration of the CUE LOOP (the only step from the loop
\* that does not return from parse)
CueLoopStep == pstate = "loop" /\ pstate' \in {"loop", "threw"}

\* a step that is an iteration of the token loop of the cue-text parser (the
\* only step of that parser that does not return)
TokenLoopStep == xSt' # xSt /\ ~xRet'.done

\* C22: parse terminates.  Every iteration of the CUE LOOP moves the line
\* cursor forward by at least one line, every iteration of the token loop
\* of the cue-text parser either ends in the exception of C1 or leaves
\* #nextToken at least one character further, and every call comes to its
\* end (returns, or raises that exception).
C22_Terminates ==
  /\ [][CueLoopStep => linePos' > linePos /\ linePos' <= Len(lines) + 1]_vars
  /\ [][TokenLoopStep => xSt'.threw \/ (xSt'.pos > xSt.pos /\ xSt'.pos <= Len(xLine) + 1)]_vars
  /\ <>Ended

\* parse has returned after a header abort (a `-->` line right below the
\* signature line) and an iteration that began, with the recovery flag set,
\* on a `-->` line that follows a non-blank line
C22_Witness ==
  /\ pstate = "done"
  /\ Len(lines) >= 2 /\ HasArrow(lines[2])
  /\ \E k \in 2..Len(trace) :
       /\ trace[k].timing = trace[k].at
       /\ InBlock(lines, trace[k].at - 1)

\* current and the nodes above it, following parent
PathUp(st) ==
  LET up[k \in 0..Len(st.nodes)] ==
        IF k = 0 THEN st.current
        ELSE IF st.nodes[up[k - 1]].parent = 0 THEN up[k - 1]
        ELSE st.nodes[up[k - 1]].parent
  IN {up[k] : k \in 0..Len(st.nodes)}

\* current is an object parse() has made, and it is the root or an element
\* that hangs below the root: the way up from current ends at the root,
\* and each node on it but the root is an element listed among the
\* children of its parent
CurrentValid(st) ==
  /\ st.current \in 1..Len(st.nodes)
  /\ st.nodes[Root].parent = 0
  /\ Root \in PathUp(st)
  /\ \A n \in PathUp(st) \ {Root} :
       /\ st.nodes[n].type = "object"
       /\ st.nodes[n].parent \in 1..Len(st.nodes)
       /\ \E k \in 1..Len(st.nodes[st.nodes[n].parent].children) :
            st.nodes[st.nodes[n].parent].children[k] = n

\* the token the next iteration of the token loop gets
TokenAhead == NextToken(xLine, xMode, xSt.pos)

\* an iteration of the token loop that gets an end tag
EndTagStep == TokenLoopStep /\ TokenAhead.type = "end tag"

\* the diagnostics a step has added
NewErrs == SubSeq(xSt'.errs, Len(xSt.errs) + 1, Len(xSt'.errs))

\* C23: the current node is always the root or an element attached below
\* the root.  An end tag never changes the tree; it moves current up one
\* level exactly when its name is the name of the current element, up two
\* levels exactly when it is `ruby` and the current element is `rt`, and in
\* every other case (the current node being the root among them) leaves
\* current where it is and reports 'Incorrect end tag.' outside metadata
\* mode, which the two other cases never do.
C23_EndTagKeepsCurrentValid ==
  /\ [](CurrentValid(xSt))
  /\ [][EndTagStep =>
          LET Handled(name, cur, elem) ==
                LET one == elem /\ xSt'.current = cur.parent
                    two == /\ elem /\ cur.parent # Root
                           /\ xSt'.current = xSt.nodes[cur.parent].parent
                    wrong == Count(NewErrs, "Incorrect end tag.")
                IN /\ xSt'.nodes = xSt.nodes
                   /\ one <=> (elem /\ name = cur.name)
                   /\ two <=> (name = <<"r", "u", "b", "y">> /\ cur.name = <<"r", "t">>)
                   /\ one \/ two => wrong = 0
                   /\ ~one /\ ~two =>
                        /\ xSt'.current = xSt.current
                        /\ wrong = (IF xMode = "metadata" THEN 0 ELSE 1)
          IN Handled(TokenAhead.name, xSt.nodes[xSt.current], xSt.current # Root)]_vars

\* the token loop has come to the end of a payload that began with an end
\* tag met at the root, reported, and went on to an element opened and
\* closed by its own end tag
C23_Witness ==
  /\ xLine = <<"<", "/", "b", ">", "<", "b", ">", "<", "/", "b", ">">>
  /\ xMode = "chapters"
  /\ xSt.pos = Len(xLine) + 1
  /\ xSt.current = Root
  /\ Len(xSt.nodes) = 2
  /\ Count(xSt.errs, "Incorrect end tag.") = 1

\* the key of a setting: the text before its first ':'
KeyOf(tok) ==
  LET index == IndexOf(tok, <<":">>)
  IN IF index = 0 THEN Take(tok, Len(tok) - 1) ELSE Take(tok, index - 1)

\* what #parseSettings makes of tok when tok is the only setting
Alone(tok) == SettingStep(SettingsStart(DefaultCue), tok)

\* a setting with a valid value: on its own it is taken without a diagnostic
ValidSetting(tok) ==
  /\ tok # <<>>
  /\ KeyOf(tok) \in {<<"v", "e", "r", "t", "i", "c", "a", "l">>, <<"l", "i", "n", "e">>, <<"p", "o", "s", "i", "t", "i", "o", "n">>, <<"s", "i", "z", "e">>, <<"a", "l", "i", "g", "n">>}
  /\ Alone(tok).errs = <<>> /\ ~Alone(tok).returned

\* the places of the settings with key k, and the last of a set of places
Places(k) == {i \in 1..Len(sSettings) : sSettings[i] # <<>> /\ KeyOf(sSettings[i]) = k}
LastOf(is) == CHOOSE i \in is : \A j \in is : j <= i

\* the settings that repeat a key met earlier on the line
Repeated == {i \in 1..Len(sSettings) : \E j \in Places(KeyOf(sSettings[i])) : j < i /\ sSettings[i] # <<>>}

\* key k occurs more than once, each time with a valid value, and the loop
\* has run to the end of the line
Duplicated(k) ==
  /\ sDone /\ ~sSt.returned
  /\ Cardinality(Places(k)) >= 2
  /\ \A i \in Places(k) : ValidSetting(sSettings[i])

\* the fields a key controls
Controlled(k) ==
  CASE k = <<"v", "e", "r", "t", "i", "c", "a", "l">> -> {"direction"}
    [] k = <<"l", "i", "n", "e">> -> {"linePosition", "snapToLines", "lineAlign"}
    [] k = <<"p", "o", "s", "i", "t", "i", "o", "n">> -> {"textPosition", "positionAlign"}
    [] k = <<"s", "i", "z", "e">> -> {"size"}
    [] k = <<"a", "l", "i", "g", "n">> -> {"alignment"}
    [] OTHER -> {}

\* the fields of these that a setting assigns only when its value names an
\* alignment (`line:5,center`, `position:50%,center`)
AlignmentFields == {"lineAlign", "positionAlign"}

NamesAlignment(tok) == IndexOf(tok, <<",">>) # 0

SettingKeys == {KeyOf(sSettings[i]) : i \in 1..Len(sSettings)}

\* C24 as stated: when a key occurs more than once with valid values,
\* 'Duplicate setting.' is reported for each repeated occurrence and every
\* field the key controls is as if only the last occurrence had been there.
C24_LastOccurrenceAlone ==
  \A k \in SettingKeys :
    Duplicated(k) =>
      /\ Count(sSt.errs, "Duplicate setting.") = Cardinality(Repeated)
      /\ \A f \in Controlled(k) : sSt.cue[f] = Alone(sSettings[LastOf(Places(k))]).cue[f]

\* C24, amended: when a key occurs more than once with valid values,
\* 'Duplicate setting.' is reported for each repeated occurrence; the
\* occurrences are applied in order, so a field every occurrence assigns
\* (direction, linePosition, snapToLines, textPosition, size, alignment) is
\* as the last occurrence alone gives it, and lineAlign or positionAlign is
\* as given by the last occurrence that names an alignment, the default when
\* none does.
C24_LastAssignmentWins ==
  \A k \in SettingKeys :
    Duplicated(k) =>
      /\ Count(sSt.errs, "Duplicate setting.") = Cardinality(Repeated)
      /\ \A f \in Controlled(k) \ AlignmentFields :
           sSt.cue[f] = Alone(sSettings[LastOf(Places(k))]).cue[f]
      /\ \A f \in Controlled(k) \cap AlignmentFields :
           LET named == {i \in Places(k) : NamesAlignment(sSettings[i])}
           IN sSt.cue[f] = IF named = {} THEN DefaultCue[f]
                           ELSE Alone(sSettings[LastOf(named)]).cue[f]

\* `line:5,center line:50%` has been parsed: the position is that of the
\* second setting, the alignment that of the first
C24_Witness ==
  /\ sDone
  /\ sSettings = <<<<"l", "i", "n", "e", ":", "5", ",", "c", "e", "n", "t", "e", "r">>, <<"l", "i", "n", "e", ":", "5", "0", "%">>>>
  /\ Duplicated(<<"l", "i", "n", "e">>)
  /\ sSt.errs = <<"Duplicate setting.">>
  /\ sSt.cue.lineAlign = <<"c", "e", "n", "t", "e", "r">>
  /\ ~sSt.cue.snapToLines

=============================================================================
